---- MODULE Spec2Model ----
(***************************************************************************)
(* Model of the joint package: back-end joints (SysJoint, FtpJoint,        *)
(* SftpJoint, DavJoint, IsoJoint), the JointWrap handle and the JointCache *)
(* with its idle sequence and idle timers.                                 *)
(***************************************************************************)
EXTENDS Integers, Sequences, FiniteSets, TLC

(***************************************************************************)
(* Bounds of the model.                                                    *)
(***************************************************************************)
MaxJoints == 2
MaxRunning == 2
NumCallers == 2
MaxPos == 2
ListLen == 2
MaxDepth == 3
MaxCleanups == 2
MaxSegs == 3
MaxLen == 2
DavDepth == 2
IsoDepth == 2

JointIds == 1..MaxJoints

(***************************************************************************)
(* Values.                                                                 *)
(***************************************************************************)
Kinds == {"sys", "ftp", "sftp", "dav", "iso"}

\* inner paths handed to Open: the root and an entry below it
Paths == {"", "f"}
SomeFile == "f"

NoFile == "<nil>"
NoPath == "<none>"
SomePath == "<path>"

ErrNil == "nil"
ErrExist == "fs.ErrExist"
ErrNotExist == "fs.ErrNotExist"
ErrOther == "other"
\* an index out of range
ErrPanic == "panic"
ErrInvalid == "fs.ErrInvalid"

\* what Eject returns
ResTrue == "true"
ResFalse == "false"

\* what the back-end answers to a request to open a path: the root is
\* always there, an entry may be missing
Outcomes(p) ==
    IF p = "" THEN {ErrNil, ErrOther} ELSE {ErrNil, ErrNotExist, ErrOther}

(***************************************************************************)
(* One joint. kind: the implementation; live: the connection (or the base  *)
(* of an IsoJoint) is present; path: the path field of the remote joints;  *)
(* file: the embedded file handle of SysJoint, SftpJoint, IsoJoint; rd:    *)
(* the open data stream (resp, ReadCloser) or section reader; at: the      *)
(* offset in the file the data stream of a remote joint stands at; pos,    *)
(* end: cursor and cached size; listed, lof, rdn: the buffered listing,    *)
(* the path it was fetched for and the read index; got: the entries that   *)
(* ReadDir has returned since the last Open, each the path of the listing  *)
(* it comes from and its place in that listing.                            *)
(***************************************************************************)
NewJoint(k) ==
    [kind |-> k, live |-> TRUE, path |-> "", file |-> NoFile, rd |-> FALSE,
     at |-> 0, pos |-> 0, end |-> 0, listed |-> FALSE, lof |-> "", rdn |-> 0,
     got |-> <<>>]

NoJoint ==
    [kind |-> "none", live |-> FALSE, path |-> "", file |-> NoFile, rd |-> FALSE,
     at |-> 0, pos |-> 0, end |-> 0, listed |-> FALSE, lof |-> "", rdn |-> 0,
     got |-> <<>>]

Busy(j) ==
    IF j.kind \in {"ftp", "dav"} THEN j.path # "" ELSE j.file # NoFile

\* the result of a joint method: the joint afterwards, the error, a panic
Res(j, e) == [j |-> j, err |-> e, panic |-> FALSE]
Panic(j) == [j |-> j, err |-> ErrOther, panic |-> TRUE]

\* variant: Open keeps the listing and the read index of the joint
FtpOpenKeep(j, p, o) ==
    IF Busy(j) THEN Res(j, ErrExist)
    ELSE Res([j EXCEPT !.path = p, !.got = <<>>], ErrNil)

FtpOpen(j, p, o) ==
    IF Busy(j) THEN Res(j, ErrExist)
    ELSE Res([j EXCEPT !.path = p, !.listed = FALSE, !.lof = "", !.rdn = 0,
                       !.got = <<>>], ErrNil)

DavOpen(j, p, o) ==
    IF Busy(j) THEN Res(j, ErrExist)
    ELSE Res([j EXCEPT !.path = p, !.listed = FALSE, !.lof = "", !.rdn = 0,
                       !.got = <<>>], ErrNil)

SftpOpen(j, p, o) ==
    IF Busy(j) THEN Res(j, ErrExist)
    ELSE IF ~j.live \/ o # ErrNil
         THEN Res([j EXCEPT !.path = p], IF o = ErrNil THEN ErrOther ELSE o)
         ELSE Res([j EXCEPT !.path = p, !.file = p, !.pos = 0,
                            !.listed = FALSE, !.lof = "", !.rdn = 0,
                            !.got = <<>>], ErrNil)

\* variant: Open without the Busy test
SysOpenNoCheck(j, p, o) ==
    IF o # ErrNil THEN Res(j, o)
    ELSE Res([j EXCEPT !.file = p, !.pos = 0, !.rdn = 0, !.got = <<>>],
                  ErrNil)

SysOpen(j, p, o) ==
    IF Busy(j) THEN Res(j, ErrExist)
    ELSE IF o # ErrNil THEN Res(j, o)
         ELSE Res([j EXCEPT !.file = p, !.pos = 0, !.rdn = 0, !.got = <<>>],
                  ErrNil)

IsoOpen(j, p, o) ==
    IF Busy(j) THEN Res(j, ErrExist)
    ELSE LET fpath == IF p = "." THEN "" ELSE p
             oo == IF fpath = "" THEN ErrNil ELSE o
         IN IF oo # ErrNil THEN Res(j, oo)
            ELSE IF fpath = "" /\ ~j.live
                 THEN Panic([j EXCEPT !.file = fpath])
                 ELSE Res([j EXCEPT !.file = fpath, !.rd = TRUE, !.pos = 0,
                                    !.rdn = 0, !.got = <<>>], ErrNil)

JOpen(j, p, o) ==
    CASE j.kind = "ftp" -> FtpOpen(j, p, o)
      [] j.kind = "dav" -> DavOpen(j, p, o)
      [] j.kind = "sftp" -> SftpOpen(j, p, o)
      [] j.kind = "sys" -> SysOpen(j, p, o)
      [] OTHER -> IsoOpen(j, p, o)

FtpClose(j) ==
    [j EXCEPT !.path = "", !.rd = FALSE, !.at = 0, !.pos = 0, !.end = 0]
DavClose(j) ==
    [j EXCEPT !.path = "", !.rd = FALSE, !.at = 0, !.pos = 0, !.end = 0]
SftpClose(j) == [j EXCEPT !.path = "", !.file = NoFile, !.pos = 0]
\* the cursor and the position in the directory are those of the os.File
\* that Close drops
SysClose(j) == [j EXCEPT !.file = NoFile, !.pos = 0, !.rdn = 0]
IsoClose(j) == [j EXCEPT !.file = NoFile, !.rd = FALSE, !.pos = 0]

JClose(j) ==
    CASE j.kind = "ftp" -> FtpClose(j)
      [] j.kind = "dav" -> DavClose(j)
      [] j.kind = "sftp" -> SftpClose(j)
      [] j.kind = "sys" -> SysClose(j)
      [] OTHER -> IsoClose(j)

FtpCleanup(j) ==
    LET c == IF Busy(j) THEN FtpClose(j) ELSE j
    IN Res([c EXCEPT !.live = FALSE], ErrNil)

DavCleanup(j) ==
    LET c == IF Busy(j) THEN DavClose(j) ELSE j
    IN Res([c EXCEPT !.live = FALSE], ErrNil)

SftpCleanup(j) ==
    LET c == IF Busy(j) THEN SftpClose(j) ELSE j
    IN Res([c EXCEPT !.live = FALSE], IF j.live THEN ErrNil ELSE ErrOther)

\* variant: Cleanup that leaves an open file open
SysCleanupKeep(j) == Res(j, ErrNil)

SysCleanup(j) ==
    LET c == IF Busy(j) THEN SysClose(j) ELSE j
    IN Res(c, ErrNil)

IsoCleanup(j) ==
    LET c == IF Busy(j) THEN IsoClose(j) ELSE j
    IN IF j.live THEN Res([c EXCEPT !.live = FALSE], ErrNil) ELSE Panic(c)

JCleanup(j) ==
    CASE j.kind = "ftp" -> FtpCleanup(j)
      [] j.kind = "dav" -> DavCleanup(j)
      [] j.kind = "sftp" -> SftpCleanup(j)
      [] j.kind = "sys" -> SysCleanup(j)
      [] OTHER -> IsoCleanup(j)

(***************************************************************************)
(* Operations on the open inner file.  FileSize is the size every file of  *)
(* the modelled back-end has, ListLen the length of every listing.         *)
(***************************************************************************)
FileSize == 2

Whences == {"start", "current", "end", "bad"}
ErrWhence == "ErrFtpWhence"
ErrNegPos == "ErrFtpNegPos"
ErrEOF == "io.EOF"

\* FtpJoint.Read, DavJoint.Read: o is the answer to the retrieval request;
\* a retrieval starts at the cursor, and the stream gives the byte it
\* stands at
StreamRead(j, o) ==
    IF ~j.rd /\ o # ErrNil THEN Res(j, o)
    ELSE LET at == IF j.rd THEN j.at ELSE j.pos
             n == IF at < FileSize THEN 1 ELSE 0
         IN Res([j EXCEPT !.rd = TRUE, !.at = at + n, !.pos = j.pos + n],
                IF n = 0 THEN ErrEOF ELSE ErrNil)

\* Read through the embedded handle of SysJoint, SftpJoint, IsoJoint
HandleRead(j) ==
    LET n == IF j.pos < FileSize THEN 1 ELSE 0
    IN Res([j EXCEPT !.pos = j.pos + n], IF n = 0 THEN ErrEOF ELSE ErrNil)

JRead(j, o) ==
    IF j.kind \in {"ftp", "dav"} THEN StreamRead(j, o) ELSE HandleRead(j)

\* variant: the data stream stays open wherever the cursor goes
StreamSeekKeep(j, offset, whence, o) ==
    IF whence = "bad" THEN Res(j, ErrWhence)
    ELSE IF whence = "end" /\ j.end = 0 /\ o # ErrNil THEN Res(j, o)
    ELSE LET e == IF whence = "end" /\ j.end = 0 THEN FileSize ELSE j.end
             abs == CASE whence = "start" -> offset
                      [] whence = "current" -> j.pos + offset
                      [] OTHER -> e + offset
             je == [j EXCEPT !.end = e]
         IN IF abs < 0 THEN Res(je, ErrNegPos)
            ELSE Res([je EXCEPT !.pos = abs], ErrNil)

\* FtpJoint.Seek, DavJoint.Seek: o is the answer to the size request
StreamSeek(j, offset, whence, o) ==
    IF whence = "bad" THEN Res(j, ErrWhence)
    ELSE IF whence = "end" /\ j.end = 0 /\ o # ErrNil THEN Res(j, o)
    ELSE LET e == IF whence = "end" /\ j.end = 0 THEN FileSize ELSE j.end
             abs == CASE whence = "start" -> offset
                      [] whence = "current" -> j.pos + offset
                      [] OTHER -> e + offset
             je == [j EXCEPT !.end = e]
         IN IF abs < 0 THEN Res(je, ErrNegPos)
            ELSE Res([je EXCEPT !.pos = abs,
                                !.rd = IF abs # j.pos THEN FALSE ELSE j.rd,
                                !.at = IF abs # j.pos THEN 0 ELSE j.at],
                     ErrNil)

HandleSeek(j, offset, whence) ==
    IF whence = "bad" THEN Res(j, ErrWhence)
    ELSE LET abs == CASE whence = "start" -> offset
                      [] whence = "current" -> j.pos + offset
                      [] OTHER -> FileSize + offset
         IN IF abs < 0 THEN Res(j, ErrNegPos)
            ELSE Res([j EXCEPT !.pos = abs], ErrNil)

JSeek(j, offset, whence, o) ==
    IF j.kind \in {"ftp", "dav"} THEN StreamSeek(j, offset, whence, o)
    ELSE HandleSeek(j, offset, whence)

\* FtpJoint.ReadAt, DavJoint.ReadAt: o is the answer to the retrieval
\* request of the Read at its end
StreamReadAt(j, off, o) ==
    IF off < 0 THEN Res(j, ErrNegPos)
    ELSE StreamRead([j EXCEPT !.rd = IF off # j.pos THEN FALSE ELSE j.rd,
                              !.at = IF off # j.pos THEN 0 ELSE j.at,
                              !.pos = off], o)

\* ReadAt through the embedded handle, which leaves the cursor alone
HandleReadAt(j, off) ==
    Res(j, IF off < 0 THEN ErrOther ELSE IF off < FileSize THEN ErrNil ELSE ErrEOF)

JReadAt(j, off, o) ==
    IF j.kind \in {"ftp", "dav"} THEN StreamReadAt(j, off, o)
    ELSE HandleReadAt(j, off)

\* FtpJoint.Write: the store request takes n bytes of the buffer and the
\* cursor moves on by as many; the data stream of a Read is left as it is
FtpWrite(j, n, o) == Res([j EXCEPT !.pos = j.pos + n], o)

\* Write through the embedded handle of SysJoint and SftpJoint
HandleWrite(j, n, o) == Res([j EXCEPT !.pos = j.pos + n], o)

JWrite(j, n, o) ==
    IF j.kind = "ftp" THEN FtpWrite(j, n, o) ELSE HandleWrite(j, n, o)

\* FtpJoint.Stat: closes the data stream before it asks for the entry
FtpStat(j, o) == Res([j EXCEPT !.rd = FALSE, !.at = 0], o)

\* Stat of the other joints asks the back-end and changes nothing
JStat(j, o) == IF j.kind = "ftp" THEN FtpStat(j, o) ELSE Res(j, o)

\* FtpJoint.Size: closes the data stream and asks for the size once
FtpSize(j, o) ==
    Res([j EXCEPT !.rd = FALSE, !.at = 0,
                  !.end = IF j.end = 0 /\ o = ErrNil THEN FileSize ELSE j.end],
        IF j.end = 0 THEN o ELSE ErrNil)

\* Size of the other joints changes nothing and returns no error
JSize(j, o) == IF j.kind = "ftp" THEN FtpSize(j, o) ELSE Res(j, ErrNil)

\* the position a Seek would move to, used to keep the cursor bounded
SeekTarget(j, offset, whence) ==
    CASE whence = "start" -> offset
      [] whence = "current" -> j.pos + offset
      [] OTHER -> FileSize + offset

\* the pagination shared by the ReadDir methods: entries returned and error
Page(n, rdn) ==
    LET rest == ListLen - rdn
        m == IF n < 0 THEN rest ELSE IF n > rest THEN rest ELSE n
    IN [n |-> IF m <= 0 THEN 0 ELSE m,
        err |-> IF n >= 0 /\ n > rest THEN ErrEOF ELSE ErrNil]

\* the m entries of the listing of dir from the place rdn on
Entries(dir, rdn, m) == [i \in 1..m |-> <<dir, rdn + i>>]

\* the pagination over the buffered listing of FtpJoint, DavJoint and
\* SftpJoint, fetched for the path of the joint when there is none
Buffered(j, n) ==
    LET dir == IF j.listed THEN j.lof ELSE j.path
        m == Page(n, j.rdn).n
    IN [j EXCEPT !.listed = TRUE, !.lof = dir, !.rdn = j.rdn + m,
                 !.got = j.got \o Entries(dir, j.rdn, m)]

FtpReadDir(j, n, o) ==
    LET j1 == [j EXCEPT !.rd = FALSE, !.at = 0]
    IN IF ~j.listed /\ o # ErrNil THEN Res(j1, o)
       ELSE Res(Buffered(j1, n), Page(n, j.rdn).err)

DavReadDir(j, n, o) ==
    IF ~j.listed /\ o # ErrNil THEN Res(j, o)
    ELSE Res(Buffered(j, n), Page(n, j.rdn).err)

SftpReadDir(j, n, o) ==
    IF ~j.listed /\ o # ErrNil THEN Res(j, o)
    ELSE Res(Buffered(j, n), Page(n, j.rdn).err)

IsoReadDir(j, n, o) ==
    IF o # ErrNil THEN Res(j, o)
    ELSE Res([j EXCEPT !.rdn = j.rdn + Page(n, j.rdn).n,
                       !.got = j.got \o Entries(j.file, j.rdn, Page(n, j.rdn).n)],
             Page(n, j.rdn).err)

\* os.File.ReadDir: end of listing is reported only by an empty bounded read
SysReadDir(j, n, o) ==
    LET rest == ListLen - j.rdn
        m == IF n <= 0 THEN rest ELSE IF n > rest THEN rest ELSE n
    IN IF o # ErrNil THEN Res(j, o)
       ELSE Res([j EXCEPT !.rdn = j.rdn + m,
                          !.got = j.got \o Entries(j.file, j.rdn, m)],
                IF n > 0 /\ rest = 0 THEN ErrEOF ELSE ErrNil)

JReadDir(j, n, o) ==
    CASE j.kind = "ftp" -> FtpReadDir(j, n, o)
      [] j.kind = "dav" -> DavReadDir(j, n, o)
      [] j.kind = "sftp" -> SftpReadDir(j, n, o)
      [] j.kind = "sys" -> SysReadDir(j, n, o)
      [] OTHER -> IsoReadDir(j, n, o)

(***************************************************************************)
(* State.  kind: the back-end of the cache key.  joints, made: the joints  *)
(* constructed so far.  cache, expire: the idle sequence and the timer     *)
(* sequence of the JointCache; a timer is "armed", "fired" (its callback   *)
(* has been started and has not run yet) or "done" (its callback has run), *)
(* and of is the joint whose Put created it.  pending: callbacks that have *)
(* been started, have not run yet and whose timer is not in the timer      *)
(* sequence any more.  The callers, by where they stand: hold[j] callers   *)
(* have a handle of joint j they obtained and did not release; fail[j]     *)
(* callers are in JointCache.Open with joint j after its inner Open failed *)
(* with NotExist; make[w] callers are in Get (w = NoPath) or in            *)
(* JointCache.Open (w = SomePath) between Pop and MakeJoint; the others    *)
(* are in no call.  res: the error returned by the call that took the last *)
(* step.  opened: joints with a successful Open and no Close since.        *)
(* cleaned: joints Cleanup has been called on.  crashed: the process       *)
(* panicked.                                                               *)
(***************************************************************************)
VARIABLES kind, joints, made, cache, expire, pending,
          hold, fail, make, res, opened, cleaned, crashed

(***************************************************************************)
(* State of a JointPool and of the goroutines that work on it, at the      *)
(* grain of the locks.  jpmap: the keys of jp.jpmap.  born: the keys a     *)
(* JointCache was created for.  jc: the JointCache of every key (idle      *)
(* sequence, timer sequence, callbacks started whose timer left the        *)
(* sequence).  jpmux, mux: the goroutine that holds jp.jpmux, the mutex of *)
(* the cache of a key (0: nobody).  pc, loc: where every goroutine stands  *)
(* and its local variables.  evict: joints a timer callback has popped and *)
(* has not cleaned up yet.                                                 *)
(***************************************************************************)
VARIABLES jpmap, born, jc, jpmux, mux, pc, loc, evict

poolVars == <<jpmap, born, jc, jpmux, mux, pc, loc, evict>>

(***************************************************************************)
(* A chain of joints as MakeJoint builds it, from the outermost back-end   *)
(* joint (index 1) to the top joint: every joint above the first is an     *)
(* IsoJoint whose Base is the joint below it.  j: the joint; torn: how     *)
(* often its teardown ran (Quit of the FTP connection, Close of the SFTP   *)
(* client and connection, Cleanup of the base of an IsoJoint; 1 once a     *)
(* DavJoint dropped its client and a SysJoint, which has nothing to tear   *)
(* down, was cleaned up); done: what the latest Cleanup of the joint       *)
(* returned.                                                               *)
(***************************************************************************)
VARIABLE chain

(***************************************************************************)
(* A call of one of the functions on composite paths.  path: the full path *)
(* it is given, a sequence of characters; op: the function that was        *)
(* called; win, dav: the build runs on Windows, the WebDAV root of the     *)
(* address is found; out: what the function returned.                      *)
(***************************************************************************)
VARIABLE call

(***************************************************************************)
(* davroot: the map of the process from the address of a WebDAV service to *)
(* the root path found for it; an address with no entry has the empty      *)
(* string.                                                                 *)
(***************************************************************************)
VARIABLE davroot

(***************************************************************************)
(* isocache: the map of an IsoJoint from the path of a file in the image   *)
(* to its record.  A record is written as the place in the image where it  *)
(* lies.                                                                   *)
(***************************************************************************)
VARIABLE isocache

(***************************************************************************)
(* track: a record of what has happened at the cache.  ej: the joints that *)
(* a caller took out with Eject and has not put back or cleaned up; took:  *)
(* an Eject has taken a joint out; peak: the largest number of Get calls   *)
(* that were in progress at one time, a Get being in progress from its     *)
(* start until the caller closes, puts or cleans up the joint it received; *)
(* shut: the joints whose wrapper a holder has closed.  The record is kept  *)
(* when on is set and stays as it is otherwise.                            *)
(***************************************************************************)
VARIABLE track

vars == <<kind, joints, made, cache, expire, pending,
          hold, fail, make, res, opened, cleaned, crashed, poolVars, chain,
          call, davroot, isocache, track>>

cacheVars == <<cache, expire, pending>>
jointVars == <<joints, opened, cleaned, crashed>>
callerVars == <<hold, fail, make>>

Range(s) == {s[i] : i \in 1..Len(s)}

RemoveAt(s, i) == SubSeq(s, 1, i - 1) \o SubSeq(s, i + 1, Len(s))

IndexOf(s, x) == CHOOSE i \in 1..Len(s) : s[i] = x

RECURSIVE Sum(_, _)
Sum(f, S) == IF S = {} THEN 0
             ELSE LET x == CHOOSE y \in S : TRUE IN f[x] + Sum(f, S \ {x})

\* JointCache.Count
Count == Len(cache)

\* JointCache.Has
Has(j) == \E i \in 1..Len(cache) : cache[i] = j

\* time.AfterFunc: the timer Put creates for joint j
NewTimer(j) == [st |-> "armed", of |-> j]

\* variant: Stop that does not keep an armed timer from firing
StopNoStop(e) == IF e.st \in {"armed", "fired"} THEN 1 ELSE 0
\* time.Timer.Stop on a timer removed from the sequence: the callbacks that
\* still run afterwards (an armed timer will not fire, a fired one is not
\* recalled)
Stop(e) == IF e.st = "fired" THEN 1 ELSE 0

RECURSIVE StopAll(_)
StopAll(s) == IF s = <<>> THEN 0 ELSE Stop(Head(s)) + StopAll(Tail(s))

\* callbacks started and not run yet
Running == pending + Cardinality({i \in 1..Len(expire) : expire[i].st = "fired"})

\* JointCache.Pop under the lock, on timer sequence ex: the joint handed out
\* and the sequences afterwards
\* variant: Pop hands out the last joint
PopJointLast == cache[Len(cache)]
PopJoint == Head(cache)
\* variant: Pop leaves the timer sequence as it is
PopExpireKeep(ex) == ex
PopExpire(ex) == Tail(ex)
PopStop(ex) == Stop(Head(ex))
PopCache == Tail(cache)
\* variant: Pop that finds no idle joint
PopFoundNever == FALSE
\* JointCache.Pop: there is an idle joint
PopFound == Len(cache) > 0

\* variant: Put without the presence test
PresentNever(j) == FALSE
\* JointCache.Put: the presence test
Present(j) == \E i \in 1..Len(cache) : cache[i] = j

\* variant: Put that stores nothing
PutNothing(j) == UNCHANGED cacheVars
\* JointCache.Put under the lock
Put(j) ==
    IF Present(j)
    THEN UNCHANGED cacheVars
    ELSE /\ cache' = Append(cache, j)
         /\ expire' = Append(expire, NewTimer(j))
         /\ UNCHANGED pending

TimerStates == {"armed", "fired", "done"}
Waits == {NoPath, SomePath}

\* callers that are in a call or have a handle
Active == Sum(hold, JointIds) + Sum(fail, JointIds) + Sum(make, Waits)

\* there is a caller that is in no call and has no handle of its own
Free == Active < NumCallers

\* the record of the step: a joint whose holders grow in an Eject that
\* returned true is taken out, one whose holders shrink is given back, and
\* the other holders and callers are in a Get; c: the joints whose wrapper
\* a holder closes in the step
TrackShut(c) ==
    LET ej == IF res' = ResTrue
              THEN track.ej \cup {j \in JointIds : hold'[j] > hold[j]}
              ELSE track.ej \ {j \in JointIds : hold'[j] < hold[j]}
        now == Active' - Cardinality(ej)
    IN IF ~track.on THEN UNCHANGED track ELSE
       track' = [on |-> TRUE,
                 ej |-> ej,
                 took |-> track.took \/ res' = ResTrue,
                 peak |-> IF now > track.peak THEN now ELSE track.peak,
                 shut |-> track.shut \cup c]

Track == TrackShut({})

\* the keys the pool is asked for and the goroutines that call it: two of
\* each, so that a goroutine can work on a cache, or on the pool, while the
\* other one closes it
Keys == {1, 2}
Threads == {1, 2}

\* no record of an image
NoRec == <<"<nil>">>

\* no function on paths has been called
NoOut ==
    [err |-> "nil", kind |-> "none", key |-> <<>>, fpath |-> <<>>, is |-> FALSE,
     keys |-> <<>>, loop |-> FALSE, mode |-> {}, dir |-> FALSE, real |-> FALSE,
     probes |-> <<>>, file |-> NoRec, reads |-> <<>>]

\* FindDavRoot found no WebDAV root
NoRoot == [root |-> <<>>, ok |-> FALSE]

\* the addresses of the WebDAV services, and the map with no root in it
Addrs == {<<"h", "t", "t", "p", ":", "/", "/", "h">>}
NoServer == [up |-> FALSE, root |-> <<>>]
NoRoots == [a \in Addrs |-> <<>>]

\* the map of an IsoJoint that Make has not filled
NoIsoCache == <<>>

\* nothing has happened at the cache
NoTrack == [on |-> FALSE, ej |-> {}, took |-> FALSE, peak |-> 0, shut |-> {}]

NoCall ==
    [path |-> <<>>, base |-> <<>>, mode |-> {}, op |-> "none", win |-> FALSE,
     dav |-> NoRoot, srv |-> NoServer, out |-> NoOut]

\* NewJointCache
EmptyCache == [cache |-> <<>>, expire |-> <<>>, pending |-> 0]

\* a goroutine that is in no call: k, j the cache and the joint it works on,
\* op the call it is in, todo the caches JointPool.Close still has to close,
\* rest the joints JointCache.Close still has to clean up, err and perr the
\* errors JointCache.Close and JointPool.Close have collected
NoLocals ==
    [k |-> 0, j |-> 0, op |-> "none", todo |-> {}, rest |-> <<>>,
     err |-> ErrNil, perr |-> ErrNil]

\* NewJointPool
PoolInit ==
    /\ jpmap = {}
    /\ born = {}
    /\ jc = [k \in Keys |-> EmptyCache]
    /\ jpmux = 0
    /\ mux = [k \in Keys |-> 0]
    /\ pc = [t \in Threads |-> "idle"]
    /\ loc = [t \in Threads |-> NoLocals]
    /\ evict = {}

TypeOK ==
    /\ kind \in Kinds
    /\ made \in 0..MaxJoints
    /\ cache \in Seq(JointIds)
    /\ expire \in Seq([st : TimerStates, of : JointIds])
    /\ pending \in 0..MaxRunning
    /\ hold \in [JointIds -> 0..NumCallers]
    /\ fail \in [JointIds -> 0..NumCallers]
    /\ make \in [Waits -> 0..NumCallers]
    /\ Active <= NumCallers
    /\ opened \subseteq JointIds
    /\ cleaned \subseteq JointIds
    /\ crashed \in BOOLEAN

InitCache ==
    /\ kind \in Kinds
    /\ joints = [i \in JointIds |-> NoJoint]
    /\ made = 0
    /\ cache = <<>>
    /\ expire = <<>>
    /\ pending = 0
    /\ hold = [j \in JointIds |-> 0]
    /\ fail = [j \in JointIds |-> 0]
    /\ make = [w \in Waits |-> 0]
    /\ res = ErrNil
    /\ opened = {}
    /\ cleaned = {}
    /\ crashed = FALSE
    /\ PoolInit
    /\ chain = <<>>
    /\ call = NoCall
    /\ davroot = NoRoots
    /\ isocache = NoIsoCache

Init == InitCache /\ track = NoTrack

\* the same with the record of the cache kept
InitTrack == InitCache /\ track = [NoTrack EXCEPT !.on = TRUE]

(***************************************************************************)
(* Calls of joint methods.  A panic ends the process: crashed is set and   *)
(* nothing else is observed.                                               *)
(***************************************************************************)
DoClose(j) ==
    /\ joints' = [joints EXCEPT ![j] = JClose(joints[j])]
    /\ opened' = opened \ {j}
    /\ UNCHANGED <<cleaned, crashed>>

DoCleanup(j) ==
    LET r == JCleanup(joints[j])
    IN IF r.panic
       THEN /\ crashed' = TRUE
            /\ UNCHANGED <<joints, opened, cleaned>>
       ELSE /\ joints' = [joints EXCEPT ![j] = r.j]
            /\ opened' = IF Busy(joints[j]) THEN opened \ {j} ELSE opened
            /\ cleaned' = cleaned \cup {j}
            /\ UNCHANGED crashed

\* a caller has a handle of joint j it obtained and has not released
Holds(j) == hold[j] > 0

\* a caller that is in no call can use a handle of joint j that was released
\* earlier
Stale(j) == j \in 1..made /\ Free

\* a caller gets, gives up a handle of joint j
Take(j) == hold' = [hold EXCEPT ![j] = @ + 1]
Release(j) == hold' = [hold EXCEPT ![j] = @ - 1]

(***************************************************************************)
(* JointCache.Open after a successful Get of joint j (state js of the      *)
(* joints): the inner Open with answer o of the back-end, then the error   *)
(* policy up to the point where Put takes the lock again.                  *)
(***************************************************************************)
\* variant: JointCache.Open drops the joint on every error
OpenPolicyDrop(err) == IF err = ErrNil THEN "wrap" ELSE "cleanup"
\* what JointCache.Open does with the joint for an error of the inner Open
OpenPolicy(err) ==
    IF err = ErrNil THEN "wrap"
    ELSE IF err = ErrNotExist THEN "put"
    ELSE IF err # ErrExist THEN "cleanup"
    ELSE "leave"

OpenGot(j, js, p, o) ==
    LET r == JOpen(js[j], p, o)
        k == JCleanup(r.j)
        a == OpenPolicy(r.err)
    IN IF r.panic \/ (a = "cleanup" /\ k.panic)
       THEN /\ crashed' = TRUE
            /\ UNCHANGED <<joints, opened, cleaned, hold, fail, res>>
       ELSE /\ UNCHANGED crashed
            /\ res' = r.err
            /\ IF a = "wrap"
               THEN /\ joints' = [js EXCEPT ![j] = r.j]
                    /\ opened' = opened \cup {j}
                    /\ Take(j)
                    /\ UNCHANGED <<fail, cleaned>>
               ELSE IF a = "put"
               THEN /\ joints' = [js EXCEPT ![j] = r.j]
                    /\ fail' = [fail EXCEPT ![j] = @ + 1]
                    /\ UNCHANGED <<hold, opened, cleaned>>
               ELSE IF a = "leave"
               THEN /\ joints' = [js EXCEPT ![j] = r.j]
                    /\ UNCHANGED <<hold, fail, opened, cleaned>>
               ELSE /\ joints' = [js EXCEPT ![j] = k.j]
                    /\ cleaned' = cleaned \cup {j}
                    /\ UNCHANGED <<hold, fail, opened>>

\* JointCache.Get returned joint j to a caller of Get
GetGot(j, js) ==
    /\ joints' = js
    /\ Take(j)
    /\ res' = ErrNil
    /\ UNCHANGED <<fail, opened, cleaned, crashed>>

(***************************************************************************)
(* JointCache.Get and JointCache.Open, first part: Pop.  w is NoPath for a *)
(* call of Get and the path for a call of JointCache.Open.  The path is    *)
(* not used before the inner Open, so a caller waiting for MakeJoint only  *)
(* records that it has one.                                                *)
(***************************************************************************)
Wait(w) == IF w = NoPath THEN NoPath ELSE SomePath

GetPop(w, o) ==
    /\ ~crashed
    /\ Free
    /\ w # NoPath => o \in Outcomes(w)
    /\ w = NoPath => o = ErrNil
    /\ IF PopFound
       THEN /\ pending' = pending + PopStop(expire)
            /\ expire' = PopExpire(expire)
            /\ cache' = PopCache
            /\ IF w = NoPath THEN GetGot(PopJoint, joints)
                             ELSE OpenGot(PopJoint, joints, w, o)
            /\ UNCHANGED <<isocache, davroot, call, chain, poolVars, kind, made, make>>
            /\ Track
       ELSE /\ o = ErrNil
            /\ make' = [make EXCEPT ![Wait(w)] = @ + 1]
            /\ res' = ErrNil
            /\ UNCHANGED <<isocache, davroot, call, chain, poolVars, kind, joints, made, cache, expire, pending,
                           hold, fail, opened, cleaned, crashed>>
            /\ Track

(***************************************************************************)
(* JointCache.Get, second part: MakeJoint builds a joint for the key, or   *)
(* fails; JointCache.Open goes on with the new joint.                      *)
(***************************************************************************)
GetMake(ok, w, o) ==
    /\ ~crashed
    /\ make[Wait(w)] > 0
    /\ IF ok /\ made < MaxJoints
       THEN /\ made' = made + 1
            /\ IF w = NoPath
               THEN /\ o = ErrNil
                    /\ GetGot(made + 1, [joints EXCEPT ![made + 1] = NewJoint(kind)])
               ELSE /\ o \in Outcomes(w)
                    /\ OpenGot(made + 1,
                               [joints EXCEPT ![made + 1] = NewJoint(kind)],
                               w, o)
            /\ make' = IF crashed' THEN make ELSE [make EXCEPT ![Wait(w)] = @ - 1]
       ELSE /\ o = ErrNil
            /\ w \in {NoPath, ""}
            /\ make' = [make EXCEPT ![Wait(w)] = @ - 1]
            /\ res' = ErrOther
            /\ UNCHANGED <<made, joints, hold, fail, opened, cleaned, crashed>>
    /\ UNCHANGED <<isocache, davroot, call, chain, poolVars, kind, cache, expire, pending>>
    /\ Track

\* JointCache.Open, the inner Open of joint j failed with NotExist: reuse the
\* joint
CacheOpenPut(j) ==
    /\ ~crashed
    /\ fail[j] > 0
    /\ Put(j)
    /\ fail' = [fail EXCEPT ![j] = @ - 1]
    /\ res' = ErrNotExist
    /\ UNCHANGED <<isocache, davroot, call, chain, poolVars, kind, joints, made, hold, make, opened, cleaned, crashed>>
    /\ Track

(***************************************************************************)
(* Calls through a handle of joint j: jw.Open, the Close of the file Open  *)
(* returned (the bare joint), JointWrap.Close, jw.Cleanup, JointCache.Put. *)
(***************************************************************************)
OpenBody(j, p, o) ==
    LET r == JOpen(joints[j], p, o)
    IN /\ ~crashed
       /\ o \in Outcomes(p)
       /\ IF r.panic
          THEN /\ crashed' = TRUE
               /\ UNCHANGED <<joints, res, opened>>
          ELSE /\ joints' = [joints EXCEPT ![j] = r.j]
               /\ res' = r.err
               /\ opened' = IF r.err = ErrNil THEN opened \cup {j} ELSE opened
               /\ UNCHANGED crashed
       /\ UNCHANGED <<isocache, davroot, call, chain, poolVars, kind, made, cache, expire, pending, hold, fail, make, cleaned>>
       /\ Track

WrapOpen(j, p, o) == Holds(j) /\ OpenBody(j, p, o)

FileCloseBody(j) ==
    /\ ~crashed
    /\ DoClose(j)
    /\ res' = ErrNil
    /\ UNCHANGED <<isocache, davroot, call, chain, poolVars, kind, made, cache, expire, pending, hold, fail, make>>
    /\ Track

FileClose(j) == Holds(j) /\ FileCloseBody(j)

WrapCloseBody(j) ==
    /\ ~crashed
    /\ DoClose(j)
    /\ Put(j)
    /\ res' = ErrNil
    /\ UNCHANGED <<isocache, davroot, call, chain, poolVars, kind, made, fail, make>>

WrapClose(j) == Holds(j) /\ WrapCloseBody(j) /\ Release(j) /\ TrackShut({j})

CleanupBody(j) ==
    /\ ~crashed
    /\ DoCleanup(j)
    /\ res' = IF crashed' THEN res ELSE JCleanup(joints[j]).err
    /\ UNCHANGED <<isocache, davroot, call, chain, poolVars, kind, made, cache, expire, pending, fail, make>>

WrapCleanup(j) ==
    /\ Holds(j)
    /\ CleanupBody(j)
    /\ IF crashed' THEN UNCHANGED hold ELSE Release(j)
    /\ Track

PutBody(j) ==
    /\ ~crashed
    /\ Put(j)
    /\ res' = ErrNil
    /\ UNCHANGED <<isocache, davroot, call, chain, poolVars, kind, joints, made, fail, make, opened, cleaned, crashed>>

PutHeld(j) == Holds(j) /\ PutBody(j) /\ Release(j) /\ Track

(***************************************************************************)
(* JointCache.Eject with a handle of joint j: a caller that gets true has  *)
(* the joint to itself again.                                              *)
(***************************************************************************)
\* variant: Eject that removes the first timer, as Pop does
EjectFirstTimer(j) ==
    /\ ~crashed
    /\ Stale(j)
    /\ IF Has(j)
       THEN LET i == IndexOf(cache, j)
            IN /\ pending' = pending + Stop(expire[i])
               /\ expire' = Tail(expire)
               /\ cache' = RemoveAt(cache, i)
               /\ Take(j)
       ELSE UNCHANGED <<cache, expire, pending, hold>>
    /\ res' = IF Has(j) THEN ResTrue ELSE ResFalse
    /\ UNCHANGED <<isocache, davroot, call, chain, poolVars, kind, joints, made, fail, make, opened, cleaned, crashed>>
    /\ Track

Eject(j) ==
    /\ ~crashed
    /\ Stale(j)
    /\ IF Has(j)
       THEN LET i == IndexOf(cache, j)
            IN /\ pending' = pending + Stop(expire[i])
               /\ expire' = RemoveAt(expire, i)
               /\ cache' = RemoveAt(cache, i)
               /\ Take(j)
       ELSE UNCHANGED <<cache, expire, pending, hold>>
    /\ res' = IF Has(j) THEN ResTrue ELSE ResFalse
    /\ UNCHANGED <<isocache, davroot, call, chain, poolVars, kind, joints, made, fail, make, opened, cleaned, crashed>>
    /\ Track

(***************************************************************************)
(* The same calls through a handle that was released earlier.              *)
(***************************************************************************)
StaleOpen(j, p, o) == Stale(j) /\ OpenBody(j, p, o)

StaleFileClose(j) == Stale(j) /\ FileCloseBody(j)

StaleClose(j) == Stale(j) /\ WrapCloseBody(j) /\ UNCHANGED hold /\ Track

StaleCleanup(j) == Stale(j) /\ CleanupBody(j) /\ UNCHANGED hold /\ Track

StalePut(j) == Stale(j) /\ PutBody(j) /\ UNCHANGED hold /\ Track

(***************************************************************************)
(* Read, Seek, ReadAt and ReadDir on the file a caller has open.            *)
(***************************************************************************)
Answers == {ErrNil, ErrOther}

FileOp(j, r) ==
    /\ joints' = [joints EXCEPT ![j] = r.j]
    /\ res' = r.err
    /\ UNCHANGED <<isocache, davroot, call, chain, poolVars, kind, made, cache, expire, pending, hold, fail, make,
                   opened, cleaned, crashed>>
    /\ Track

Read(j, o) ==
    /\ ~crashed
    /\ Holds(j)
    /\ j \in opened
    /\ FileOp(j, JRead(joints[j], o))

Seek(j, offset, whence, o) ==
    /\ ~crashed
    /\ Holds(j)
    /\ j \in opened
    /\ SeekTarget(joints[j], offset, whence) <= MaxPos
    /\ FileOp(j, JSeek(joints[j], offset, whence, o))

ReadAt(j, off, o) ==
    /\ ~crashed
    /\ Holds(j)
    /\ j \in opened
    /\ FileOp(j, JReadAt(joints[j], off, o))

ReadDir(j, n, o) ==
    /\ ~crashed
    /\ Holds(j)
    /\ j \in opened
    /\ FileOp(j, JReadDir(joints[j], n, o))

\* Write of n bytes; DavJoint and IsoJoint have no Write
Write(j, n, o) ==
    /\ ~crashed
    /\ Holds(j)
    /\ j \in opened
    /\ joints[j].kind \in {"ftp", "sftp", "sys"}
    /\ joints[j].pos + n <= MaxPos
    /\ FileOp(j, JWrite(joints[j], n, o))

Stat(j, o) ==
    /\ ~crashed
    /\ Holds(j)
    /\ j \in opened
    /\ FileOp(j, JStat(joints[j], o))

Size(j, o) ==
    /\ ~crashed
    /\ Holds(j)
    /\ j \in opened
    /\ FileOp(j, JSize(joints[j], o))

(***************************************************************************)
(* The idle timers.  TimerFire: the duration of the armed timer at index i *)
(* elapses and its callback is started.  CallbackIn, CallbackOut: the      *)
(* callback of a timer that is still in the timer sequence (at index i)    *)
(* or is not: it pops the head of the idle sequence and cleans it up.      *)
(***************************************************************************)
TimerFire(i) ==
    /\ ~crashed
    /\ i \in 1..Len(expire)
    /\ expire[i].st = "armed"
    /\ Running < MaxRunning
    /\ expire' = [expire EXCEPT ![i].st = "fired"]
    /\ res' = ErrNil
    /\ UNCHANGED <<isocache, davroot, call, chain, poolVars, kind, joints, made, cache, pending, hold, fail, make,
                   opened, cleaned, crashed>>
    /\ Track

\* variant: the callback cleans the head joint up and leaves it idle
CallbackKeep(ex, pd) ==
    /\ IF Len(cache) > 0
       THEN DoCleanup(Head(cache))
       ELSE UNCHANGED jointVars
    /\ pending' = pd
    /\ expire' = ex
    /\ res' = ErrNil
    /\ UNCHANGED <<isocache, davroot, call, chain, poolVars, kind, made, cache, hold, fail, make>>
    /\ Track

\* the callback with the other timers as in ex and the other callbacks pd
Callback(ex, pd) ==
    /\ IF Len(cache) > 0
       THEN /\ DoCleanup(PopJoint)
            /\ pending' = pd + PopStop(ex)
            /\ expire' = PopExpire(ex)
            /\ cache' = PopCache
       ELSE /\ pending' = pd
            /\ expire' = ex
            /\ UNCHANGED <<cache, jointVars>>
    /\ res' = ErrNil
    /\ UNCHANGED <<isocache, davroot, call, chain, poolVars, kind, made, hold, fail, make>>
    /\ Track

CallbackIn(i) ==
    /\ ~crashed
    /\ i \in 1..Len(expire)
    /\ expire[i].st = "fired"
    /\ Callback([expire EXCEPT ![i].st = "done"], pending)

CallbackOut ==
    /\ ~crashed
    /\ pending > 0
    /\ Callback(expire, pending - 1)

(***************************************************************************)
(* JointCache.Close: stops every timer and cleans up every idle joint.     *)
(***************************************************************************)
RECURSIVE CleanupAll(_, _)
CleanupAll(js, s) ==
    IF s = <<>> THEN [js |-> js, err |-> ErrNil, panic |-> FALSE]
    ELSE LET r == JCleanup(js[Head(s)])
             a == CleanupAll([js EXCEPT ![Head(s)] = r.j], Tail(s))
         IN IF r.panic THEN [js |-> js, err |-> ErrOther, panic |-> TRUE]
            ELSE [a EXCEPT !.err = IF r.err # ErrNil THEN r.err ELSE a.err]

CacheClose ==
    /\ ~crashed
    /\ LET r == CleanupAll(joints, cache)
       IN IF r.panic
          THEN /\ crashed' = TRUE
               /\ UNCHANGED <<joints, cache, expire, pending, opened, cleaned, res>>
          ELSE /\ pending' = pending + StopAll(expire)
               /\ expire' = <<>>
               /\ joints' = r.js
               /\ cache' = <<>>
               /\ opened' = opened \ {j \in Range(cache) : Busy(joints[j])}
               /\ cleaned' = cleaned \cup Range(cache)
               /\ res' = r.err
               /\ UNCHANGED crashed
    /\ UNCHANGED <<isocache, davroot, call, chain, poolVars, kind, made, hold, fail, make>>
    /\ Track

(***************************************************************************)
(* Specifications.  Spec: callers may use every public operation at any    *)
(* time, also through a handle that was released.  SpecOnce: every caller  *)
(* releases each handle once and does not use it afterwards, except to     *)
(* eject its joint.  SpecCache: callers use the cache operations only      *)
(* (Get, Put, Eject, the Close of the handle, Close of the cache), at any  *)
(* time.  SpecJoint: one caller works on one joint it made itself, without *)
(* a cache.                                                                *)
(***************************************************************************)
Errs == {ErrNil, ErrNotExist, ErrOther}

NextOnce ==
    \/ \E w \in Paths \cup {NoPath}, o \in Errs : GetPop(w, o)
    \/ \E ok \in BOOLEAN, w \in Paths \cup {NoPath}, o \in Errs : GetMake(ok, w, o)
    \/ \E j \in JointIds : CacheOpenPut(j)
    \/ \E j \in JointIds, p \in Paths, o \in Errs : WrapOpen(j, p, o)
    \/ \E j \in JointIds : FileClose(j)
    \/ \E j \in JointIds : WrapClose(j)
    \/ \E j \in JointIds : WrapCleanup(j)
    \/ \E j \in JointIds : PutHeld(j)
    \/ \E j \in JointIds : Eject(j)
    \/ \E i \in 1..Len(expire) : TimerFire(i)
    \/ \E i \in 1..Len(expire) : CallbackIn(i)
    \/ CallbackOut
    \/ CacheClose

NextStale ==
    \/ \E j \in JointIds, p \in Paths, o \in Errs : StaleOpen(j, p, o)
    \/ \E j \in JointIds : StaleFileClose(j)
    \/ \E j \in JointIds : StaleClose(j)
    \/ \E j \in JointIds : StaleCleanup(j)
    \/ \E j \in JointIds : StalePut(j)

Next == NextOnce \/ NextStale

Spec == Init /\ [][Next]_vars

NextCache ==
    \/ GetPop(NoPath, ErrNil)
    \/ \E ok \in BOOLEAN : GetMake(ok, NoPath, ErrNil)
    \/ \E j \in JointIds : WrapClose(j)
    \/ \E j \in JointIds : PutHeld(j)
    \/ \E j \in JointIds : Eject(j)
    \/ \E j \in JointIds : StaleClose(j)
    \/ \E j \in JointIds : StalePut(j)
    \/ \E i \in 1..Len(expire) : TimerFire(i)
    \/ \E i \in 1..Len(expire) : CallbackIn(i)
    \/ CallbackOut
    \/ CacheClose

SpecCache == Init /\ [][NextCache]_vars

\* the same with the record of the cache kept
SpecBorrowStale == InitTrack /\ [][NextCache]_vars

SpecOnce == Init /\ [][NextOnce]_vars

InitJoint ==
    /\ kind \in Kinds
    /\ joints = [i \in JointIds |-> IF i = 1 THEN NewJoint(kind) ELSE NoJoint]
    /\ made = 1
    /\ cache = <<>>
    /\ expire = <<>>
    /\ pending = 0
    /\ hold = [j \in JointIds |-> IF j = 1 THEN 1 ELSE 0]
    /\ fail = [j \in JointIds |-> 0]
    /\ make = [w \in Waits |-> 0]
    /\ res = ErrNil
    /\ opened = {}
    /\ cleaned = {}
    /\ crashed = FALSE
    /\ PoolInit
    /\ chain = <<>>
    /\ call = NoCall
    /\ davroot = NoRoots
    /\ isocache = NoIsoCache
    /\ track = NoTrack

NextJoint ==
    \/ \E j \in JointIds, p \in Paths, o \in Errs : WrapOpen(j, p, o)
    \/ \E j \in JointIds : FileClose(j)
    \/ \E j \in JointIds, o \in Answers : Read(j, o)
    \/ \E j \in JointIds, offset \in -1..MaxPos, whence \in Whences, o \in Answers :
          Seek(j, offset, whence, o)
    \/ \E j \in JointIds, off \in -1..MaxPos, o \in Answers : ReadAt(j, off, o)
    \/ \E j \in JointIds, n \in -1..(ListLen + 1), o \in Answers : ReadDir(j, n, o)

SpecJoint == InitJoint /\ [][NextJoint]_vars

\* the calls on one joint with Write, Stat and Size among them
NextStream ==
    \/ NextJoint
    \/ \E j \in JointIds, n \in 0..1, o \in Answers : Write(j, n, o)
    \/ \E j \in JointIds, o \in Answers : Stat(j, o)
    \/ \E j \in JointIds, o \in Answers : Size(j, o)

SpecStream == InitJoint /\ [][NextStream]_vars

(***************************************************************************)
(* The JointPool at the grain of the locks.  A step is a critical section  *)
(* that calls no Joint method, or one Joint method.                        *)
(***************************************************************************)
\* errors.Join of two errors
Join(a, b) == IF a # ErrNil THEN a ELSE b

\* Cleanup of joint j when the teardown of its connection (Quit of the FTP
\* connection, Close of the SFTP client and connection, Cleanup of the base
\* of an IsoJoint) answers o
TearDown(j, o) ==
    LET r == JCleanup(j)
    IN IF ~r.panic /\ j.live /\ j.kind \in {"ftp", "sftp", "iso"} /\ o # ErrNil
       THEN Res(r.j, o)
       ELSE r

\* JointCache.Pop, JointCache.Put on the cache c
Popped(c) ==
    [cache |-> Tail(c.cache), expire |-> Tail(c.expire),
     pending |-> c.pending + Stop(Head(c.expire))]

PutIn(c, j) ==
    IF \E i \in 1..Len(c.cache) : c.cache[i] = j
    THEN c
    ELSE [c EXCEPT !.cache = Append(@, j), !.expire = Append(@, NewTimer(j))]

\* goroutine t goes to label l with locals v
Goto(t, l, v) ==
    /\ pc' = [pc EXCEPT ![t] = l]
    /\ loc' = [loc EXCEPT ![t] = v]

\* what the steps of the pool leave alone
PoolFrame ==
    UNCHANGED <<track, isocache, davroot, call, chain, kind, cache, expire, pending, hold, fail, make, res>>

\* JointPool.GetCache by a goroutine that goes on to call op on the cache
GetCache(t, k, op) ==
    /\ ~crashed
    /\ pc[t] = "idle"
    /\ jpmux = 0
    /\ k \in jpmap \/ k \notin born
    /\ jpmap' = jpmap \cup {k}
    /\ born' = born \cup {k}
    /\ Goto(t, "cache", [NoLocals EXCEPT !.k = k, !.op = op])
    /\ PoolFrame
    /\ UNCHANGED <<joints, made, opened, cleaned, crashed, jc, jpmux, mux, evict>>

\* JointCache.Open: Pop
JcPop(t) ==
    LET k == loc[t].k
    IN /\ ~crashed
       /\ pc[t] = "cache"
       /\ loc[t].op = "open"
       /\ mux[k] = 0
       /\ IF Len(jc[k].cache) > 0
          THEN /\ jc' = [jc EXCEPT ![k] = Popped(jc[k])]
               /\ Goto(t, "open", [loc[t] EXCEPT !.j = Head(jc[k].cache)])
          ELSE /\ Goto(t, "make", loc[t])
               /\ UNCHANGED jc
       /\ PoolFrame
       /\ UNCHANGED <<joints, made, opened, cleaned, crashed,
                      jpmap, born, jpmux, mux, evict>>

\* JointCache.Get: MakeJoint
JcMake(t, ok) ==
    /\ ~crashed
    /\ pc[t] = "make"
    /\ IF ok /\ made < MaxJoints
       THEN /\ made' = made + 1
            /\ joints' = [joints EXCEPT ![made + 1] = NewJoint(kind)]
            /\ Goto(t, "open", [loc[t] EXCEPT !.j = made + 1])
       ELSE /\ Goto(t, "idle", NoLocals)
            /\ UNCHANGED <<made, joints>>
    /\ PoolFrame
    /\ UNCHANGED <<opened, cleaned, crashed, jpmap, born, jc, jpmux, mux, evict>>

\* JointCache.Open: the inner Open and the choice of what follows
JcOpenInner(t, p, o) ==
    LET j == loc[t].j
        r == JOpen(joints[j], p, o)
        a == OpenPolicy(r.err)
    IN /\ ~crashed
       /\ pc[t] = "open"
       /\ o \in Outcomes(p)
       /\ IF r.panic
          THEN /\ crashed' = TRUE
               /\ UNCHANGED <<joints, opened, pc, loc>>
          ELSE /\ UNCHANGED crashed
               /\ joints' = [joints EXCEPT ![j] = r.j]
               /\ opened' = IF r.err = ErrNil THEN opened \cup {j} ELSE opened
               /\ IF a = "wrap" THEN Goto(t, "held", loc[t])
                  ELSE IF a = "put" THEN Goto(t, "put", [loc[t] EXCEPT !.err = r.err])
                  ELSE IF a = "cleanup" THEN Goto(t, "drop", [loc[t] EXCEPT !.err = r.err])
                  ELSE Goto(t, "idle", NoLocals)
       /\ PoolFrame
       /\ UNCHANGED <<made, cleaned, jpmap, born, jc, jpmux, mux, evict>>

\* JointWrap.Close: Close of the joint
JwClose(t) ==
    /\ ~crashed
    /\ pc[t] = "held"
    /\ DoClose(loc[t].j)
    /\ Goto(t, "put", [loc[t] EXCEPT !.err = ErrNil])
    /\ PoolFrame
    /\ UNCHANGED <<made, jpmap, born, jc, jpmux, mux, evict>>

\* JointCache.Put at the end of JointWrap.Close and of a JointCache.Open that
\* failed with NotExist
JcPut(t) ==
    LET k == loc[t].k
    IN /\ ~crashed
       /\ pc[t] = "put"
       /\ mux[k] = 0
       /\ jc' = [jc EXCEPT ![k] = PutIn(jc[k], loc[t].j)]
       /\ Goto(t, "idle", NoLocals)
       /\ PoolFrame
       /\ UNCHANGED <<joints, made, opened, cleaned, crashed,
                      jpmap, born, jpmux, mux, evict>>

\* Cleanup of joint j with the teardown answering o
DoTearDown(j, o) ==
    LET r == TearDown(joints[j], o)
    IN IF r.panic
       THEN /\ crashed' = TRUE
            /\ UNCHANGED <<joints, opened, cleaned>>
       ELSE /\ joints' = [joints EXCEPT ![j] = r.j]
            /\ opened' = IF Busy(joints[j]) THEN opened \ {j} ELSE opened
            /\ cleaned' = cleaned \cup {j}
            /\ UNCHANGED crashed

\* JointCache.Open: Cleanup of the joint after another error
JcDrop(t, o) ==
    /\ ~crashed
    /\ pc[t] = "drop"
    /\ DoTearDown(loc[t].j, o)
    /\ IF crashed' THEN UNCHANGED <<pc, loc>> ELSE Goto(t, "idle", NoLocals)
    /\ PoolFrame
    /\ UNCHANGED <<made, jpmap, born, jc, jpmux, mux, evict>>

(***************************************************************************)
(* JointCache.Close by goroutine t on the cache of key k: it takes the     *)
(* mutex, stops the timers and drops the timer sequence; then it cleans    *)
(* the idle joints up one by one; then it drops the idle sequence and      *)
(* gives the mutex back.                                                   *)
(***************************************************************************)
CloseLock(t, k, v) ==
    /\ mux[k] = 0
    /\ mux' = [mux EXCEPT ![k] = t]
    /\ jc' = [jc EXCEPT ![k].expire = <<>>,
                        ![k].pending = @ + StopAll(jc[k].expire)]
    /\ Goto(t, "closeloop", [v EXCEPT !.k = k, !.rest = jc[k].cache, !.err = ErrNil])

\* JointCache.Close called on a cache
JcCloseLock(t) ==
    /\ ~crashed
    /\ pc[t] = "cache"
    /\ loc[t].op = "close"
    /\ CloseLock(t, loc[t].k, loc[t])
    /\ PoolFrame
    /\ UNCHANGED <<joints, made, opened, cleaned, crashed,
                   jpmap, born, jpmux, evict>>

\* variant: the loop of JointCache.Close ends at the first error
CloseRestStop(rest, err) == IF err # ErrNil THEN <<>> ELSE Tail(rest)
\* the joints JointCache.Close goes on with after a Cleanup that returned err
CloseRest(rest, err) == Tail(rest)

JcCloseCleanup(t, o) ==
    LET j == Head(loc[t].rest)
        r == TearDown(joints[j], o)
    IN /\ ~crashed
       /\ pc[t] = "closeloop"
       /\ loc[t].rest # <<>>
       /\ DoTearDown(j, o)
       /\ IF crashed'
          THEN UNCHANGED <<pc, loc>>
          ELSE Goto(t, "closeloop",
                    [loc[t] EXCEPT !.rest = CloseRest(loc[t].rest, r.err),
                                   !.err = Join(loc[t].err, r.err)])
       /\ PoolFrame
       /\ UNCHANGED <<made, jpmap, born, jc, jpmux, mux, evict>>

JcCloseUnlock(t) ==
    LET k == loc[t].k
    IN /\ ~crashed
       /\ pc[t] = "closeloop"
       /\ loc[t].rest = <<>>
       /\ jc' = [jc EXCEPT ![k].cache = <<>>]
       /\ mux' = [mux EXCEPT ![k] = 0]
       /\ IF loc[t].op = "close"
          THEN Goto(t, "idle", NoLocals)
          ELSE Goto(t, "poolloop",
                       [loc[t] EXCEPT !.todo = @ \ {k},
                                      !.perr = Join(@, loc[t].err)])
       /\ PoolFrame
       /\ UNCHANGED <<joints, made, opened, cleaned, crashed,
                      jpmap, born, jpmux, evict>>

(***************************************************************************)
(* JointPool.Close and JointPool.Clear by goroutine t: under jp.jpmux it   *)
(* closes the cache of every key of the map, in the order the map yields   *)
(* them; Clear then empties the map.                                       *)
(***************************************************************************)
JpCloseLock(t, op) ==
    /\ ~crashed
    /\ pc[t] = "idle"
    /\ jpmux = 0
    /\ jpmux' = t
    /\ Goto(t, "poolloop", [NoLocals EXCEPT !.op = op, !.todo = jpmap])
    /\ PoolFrame
    /\ UNCHANGED <<joints, made, opened, cleaned, crashed,
                   jpmap, born, jc, mux, evict>>

JpCloseNext(t, k) ==
    /\ ~crashed
    /\ pc[t] = "poolloop"
    /\ k \in loc[t].todo
    /\ CloseLock(t, k, loc[t])
    /\ PoolFrame
    /\ UNCHANGED <<joints, made, opened, cleaned, crashed,
                   jpmap, born, jpmux, evict>>

JpCloseUnlock(t) ==
    /\ ~crashed
    /\ pc[t] = "poolloop"
    /\ loc[t].todo = {}
    /\ jpmux' = 0
    /\ IF loc[t].op = "clear"
       THEN Goto(t, "clearmap", loc[t])
       ELSE Goto(t, "idle", NoLocals)
    /\ PoolFrame
    /\ UNCHANGED <<joints, made, opened, cleaned, crashed,
                   jpmap, born, jc, mux, evict>>

\* JointPool.Clear: clear(jp.jpmap) after Close has returned, without
\* jp.jpmux.  While another goroutine ranges over the map in JointPool.Close
\* this is a data race: the range goes on as before ("kept"), yields no
\* further cache ("cut"), or the runtime ends the process with "concurrent
\* map iteration and map write" ("fatal").
RaceOutcomes == {"kept", "cut", "fatal"}

JpClearMap(t, out) ==
    LET u == jpmux
    IN /\ ~crashed
       /\ pc[t] = "clearmap"
       /\ u = 0 => out = "kept"
       /\ jpmap' = {}
       /\ crashed' = (out = "fatal")
       /\ pc' = [pc EXCEPT ![t] = "idle"]
       /\ loc' = IF out = "cut"
                 THEN [loc EXCEPT ![t] = NoLocals,
                                  ![u].todo = IF pc[u] = "closeloop"
                                              THEN {loc[u].k} ELSE {}]
                 ELSE [loc EXCEPT ![t] = NoLocals]
       /\ PoolFrame
       /\ UNCHANGED <<joints, made, opened, cleaned, born, jc, jpmux, mux, evict>>

(***************************************************************************)
(* The idle timers of the caches of the pool: the timer at index i of the  *)
(* cache of key k fires and its callback pops the head of the idle         *)
(* sequence under the mutex; then the callback cleans the joint up.  (The  *)
(* callbacks that run after their timer was stopped are in SpecCache.)     *)
(***************************************************************************)
JcCallbackPop(k, i) ==
    LET c == [jc[k] EXCEPT !.expire[i].st = "done"]
    IN /\ ~crashed
       /\ i \in 1..Len(jc[k].expire)
       /\ jc[k].expire[i].st = "armed"
       /\ Cardinality(evict) < MaxRunning
       /\ mux[k] = 0
       /\ Len(c.cache) > 0
       /\ jc' = [jc EXCEPT ![k] = Popped(c)]
       /\ evict' = evict \cup {Head(c.cache)}
       /\ PoolFrame
       /\ UNCHANGED <<joints, made, opened, cleaned, crashed,
                      jpmap, born, jpmux, mux, pc, loc>>

JcCallbackCleanup(j, o) ==
    /\ ~crashed
    /\ j \in evict
    /\ DoTearDown(j, o)
    /\ evict' = IF crashed' THEN evict ELSE evict \ {j}
    /\ PoolFrame
    /\ UNCHANGED <<made, jpmap, born, jc, jpmux, mux, pc, loc>>

NextLock ==
    \/ \E t \in Threads, k \in Keys, op \in {"open", "close"} : GetCache(t, k, op)
    \/ \E t \in Threads : JcPop(t)
    \/ \E t \in Threads, ok \in BOOLEAN : JcMake(t, ok)
    \/ \E t \in Threads, o \in Errs : JcOpenInner(t, SomeFile, o)
    \/ \E t \in Threads : JwClose(t)
    \/ \E t \in Threads : JcPut(t)
    \/ \E t \in Threads, o \in Answers : JcDrop(t, o)
    \/ \E t \in Threads : JcCloseLock(t)
    \/ \E t \in Threads, o \in Answers : JcCloseCleanup(t, o)
    \/ \E t \in Threads : JcCloseUnlock(t)
    \/ \E t \in Threads, op \in {"pclose", "clear"} : JpCloseLock(t, op)
    \/ \E t \in Threads, k \in Keys : JpCloseNext(t, k)
    \/ \E t \in Threads : JpCloseUnlock(t)
    \/ \E t \in Threads, out \in RaceOutcomes : JpClearMap(t, out)
    \/ \E k \in Keys, i \in 1..MaxJoints : JcCallbackPop(k, i)
    \/ \E j \in JointIds, o \in Answers : JcCallbackCleanup(j, o)

SpecLock == Init /\ [][NextLock]_vars

(***************************************************************************)
(* A chain of joints and the calls on it: Open and Close on the top joint, *)
(* Cleanup on any joint of the chain (a caller can keep the base it built  *)
(* an IsoJoint on).  oc, od: what the Close of the open handle and the     *)
(* teardown of the connection of the back-end joint answer.                *)
(***************************************************************************)
BaseKinds == Kinds \ {"iso"}

\* IsoJoint.Make: the base opens the image, the IsoJoint above it is fresh
MakeChain(k, n) ==
    [i \in 1..n |->
        LET j == NewJoint(IF i = 1 THEN k ELSE "iso")
        IN [j |-> IF i < n THEN JOpen(j, SomeFile, ErrNil).j ELSE j,
            torn |-> 0, done |-> "no"]]

InitChain ==
    /\ kind \in BaseKinds
    /\ joints = [i \in JointIds |-> NoJoint]
    /\ made = 0
    /\ cache = <<>>
    /\ expire = <<>>
    /\ pending = 0
    /\ hold = [j \in JointIds |-> 0]
    /\ fail = [j \in JointIds |-> 0]
    /\ make = [w \in Waits |-> 0]
    /\ res = ErrNil
    /\ opened = {}
    /\ cleaned = {}
    /\ crashed = FALSE
    /\ PoolInit
    /\ \E n \in 1..MaxDepth : chain = MakeChain(kind, n)
    /\ call = NoCall
    /\ davroot = NoRoots
    /\ isocache = NoIsoCache
    /\ track = NoTrack

ChainFrame ==
    UNCHANGED <<track, isocache, davroot, call, poolVars, kind, joints, made, cache, expire, pending,
                hold, fail, make, opened, cleaned>>

\* the joint has a handle whose Close can fail
HasHandle(j) == IF j.kind \in {"ftp", "dav"} THEN j.rd ELSE j.file # NoFile

\* Cleanup calls the teardown of the connection
Quits(j) == (j.kind = "ftp" /\ j.live) \/ j.kind = "sftp"

\* Cleanup of a back-end joint, entry e of the chain
BaseCleanup(e, oc, od) ==
    LET j == e.j
        err1 == IF Busy(j) /\ HasHandle(j) THEN oc ELSE ErrNil
        err2 == IF Quits(j) THEN od ELSE ErrNil
        err == Join(err1, err2)
    IN [e |-> [j |-> JCleanup(j).j,
               torn |-> IF Quits(j) THEN e.torn + 1
                        ELSE IF j.kind \in {"dav", "sys"} THEN 1 ELSE e.torn,
               done |-> IF err = ErrNil THEN "ok" ELSE "err"],
        err |-> err]

\* Cleanup of joint i of chain c: the chain afterwards, the error, a panic
RECURSIVE CleanupAt(_, _, _, _)
CleanupAt(c, i, oc, od) ==
    LET j == c[i].j
    IN IF j.kind # "iso"
       THEN LET r == BaseCleanup(c[i], oc, od)
            IN [c |-> [c EXCEPT ![i] = r.e], err |-> r.err, panic |-> FALSE]
       ELSE LET c1 == [c EXCEPT ![i].j = IF Busy(j) THEN IsoClose(j) ELSE j]
            IN IF ~j.live
               THEN [c |-> c1, err |-> ErrOther, panic |-> TRUE]
               ELSE LET r == CleanupAt(c1, i - 1, oc, od)
                    IN IF r.panic THEN r
                       ELSE [c |-> [r.c EXCEPT ![i].j.live = FALSE,
                                               ![i].torn = @ + 1,
                                               ![i].done = IF r.err = ErrNil
                                                           THEN "ok" ELSE "err"],
                             err |-> r.err, panic |-> FALSE]

ChainOpen(p, o) ==
    LET n == Len(chain)
        r == JOpen(chain[n].j, p, o)
    IN /\ ~crashed
       /\ o \in Outcomes(p)
       /\ IF r.panic
          THEN crashed' = TRUE /\ UNCHANGED <<chain, res>>
          ELSE /\ chain' = [chain EXCEPT ![n].j = r.j]
               /\ res' = r.err
               /\ UNCHANGED crashed
       /\ ChainFrame

ChainClose ==
    /\ ~crashed
    /\ chain' = [chain EXCEPT ![Len(chain)].j = JClose(@)]
    /\ res' = ErrNil
    /\ UNCHANGED crashed
    /\ ChainFrame

ChainCleanup(i, oc, od) ==
    LET r == CleanupAt(chain, i, oc, od)
    IN /\ ~crashed
       /\ i \in 1..Len(chain)
       /\ chain[1].torn < MaxCleanups
       /\ IF r.panic
          THEN crashed' = TRUE /\ UNCHANGED <<chain, res>>
          ELSE /\ chain' = r.c
               /\ res' = r.err
               /\ UNCHANGED crashed
       /\ ChainFrame

NextChain ==
    \/ \E p \in Paths, o \in Errs : ChainOpen(p, o)
    \/ ChainClose
    \/ \E i \in 1..MaxDepth, oc \in Answers, od \in Answers : ChainCleanup(i, oc, od)

SpecChain == InitChain /\ [][NextChain]_vars

(***************************************************************************)
(* SpecMake: JointCache.Get on an empty cache for a key of n joints, the   *)
(* back-end joint and n - 1 nested images, and the calls of the caller on  *)
(* the joint it receives.  chain holds the joints MakeJoint has built,     *)
(* made their number, hold[1] tells that the caller received the top       *)
(* joint.  failAt is the Make call that fails (0: none) and o the answer   *)
(* of the base to the Open of the image in that call: when the Open        *)
(* succeeds, it is the reading of the image that fails.                    *)
(***************************************************************************)
InitMake ==
    /\ kind \in BaseKinds
    /\ joints = [i \in JointIds |-> NoJoint]
    /\ made = 0
    /\ cache = <<>>
    /\ expire = <<>>
    /\ pending = 0
    /\ hold = [j \in JointIds |-> 0]
    /\ fail = [j \in JointIds |-> 0]
    /\ make = [w \in Waits |-> 0]
    /\ res = ErrNil
    /\ opened = {}
    /\ cleaned = {}
    /\ crashed = FALSE
    /\ PoolInit
    /\ chain = <<>>
    /\ call = NoCall
    /\ davroot = NoRoots
    /\ isocache = NoIsoCache
    /\ track = NoTrack

\* the joints that exist when the Make call failAt >= 2 of MakeJoint has
\* failed: the IsoJoint of that call is dropped, its base is what Open of
\* the image left
Leftover(k, failAt, o) ==
    LET c == MakeChain(k, failAt - 1)
        r == JOpen(c[failAt - 1].j, SomeFile, o)
    IN [c |-> [c EXCEPT ![failAt - 1].j = r.j],
        err |-> IF r.err # ErrNil THEN r.err ELSE ErrOther]

MakeFrame ==
    UNCHANGED <<track, isocache, davroot, poolVars, kind, joints, cache, expire, pending,
                fail, make, opened, cleaned, crashed>>

\* JointCache.Get with nothing idle: MakeJoint and what Get returns
GetChain(n, failAt, o) ==
    /\ call.op = "none"
    /\ failAt <= n
    /\ failAt = 1 => kind # "sys"
    /\ o \in Outcomes(SomeFile)
    /\ call' = [call EXCEPT !.op = "make",
                            !.out.err = IF failAt = 0 THEN ErrNil
                                        ELSE IF failAt = 1 THEN ErrOther
                                        ELSE Leftover(kind, failAt, o).err]
    /\ chain' = IF failAt = 0 THEN MakeChain(kind, n)
                ELSE IF failAt = 1 THEN <<>>
                ELSE Leftover(kind, failAt, o).c
    /\ made' = Len(chain')
    /\ hold' = [hold EXCEPT ![1] = IF failAt = 0 THEN 1 ELSE 0]
    /\ res' = call'.out.err
    /\ MakeFrame

\* the calls of the holder on the top joint
HeldOpen(p, o) == hold[1] = 1 /\ ChainOpen(p, o)

HeldClose == hold[1] = 1 /\ ChainClose

HeldCleanup(oc, od) == hold[1] = 1 /\ ChainCleanup(Len(chain), oc, od)

\* variant: Open on a joint below the top that forgets the Busy test
BaseOpenAnyway(i, p, o) ==
    /\ ~crashed
    /\ hold[1] = 1
    /\ i \in 1..(Len(chain) - 1)
    /\ chain' = [chain EXCEPT ![i].j.path = p]
    /\ res' = ErrNil
    /\ UNCHANGED crashed
    /\ ChainFrame

\* Open called on a joint below the top, reached through the Base field
BaseOpen(i, p, o) ==
    LET r == JOpen(chain[i].j, p, o)
    IN /\ ~crashed
       /\ hold[1] = 1
       /\ i \in 1..(Len(chain) - 1)
       /\ o \in Outcomes(p)
       /\ ~r.panic
       /\ chain' = [chain EXCEPT ![i].j = r.j]
       /\ res' = r.err
       /\ UNCHANGED crashed
       /\ ChainFrame

NextMake ==
    \/ \E n \in 1..MaxDepth, failAt \in 0..MaxDepth, o \in Errs : GetChain(n, failAt, o)
    \/ \E p \in Paths, o \in Errs : HeldOpen(p, o)
    \/ HeldClose
    \/ \E oc \in Answers, od \in Answers : HeldCleanup(oc, od)
    \/ \E i \in 1..MaxDepth, p \in Paths, o \in Errs : BaseOpen(i, p, o)

SpecMake == InitMake /\ [][NextMake]_vars

(***************************************************************************)
(* The functions on composite paths.  A string is the sequence of its      *)
(* characters; At, Slice and From are the indexing and slicing of Go, with *)
(* indices from 0.                                                         *)
(***************************************************************************)
Slice(s, a, b) == SubSeq(s, a + 1, b)
From(s, a) == SubSeq(s, a + 1, Len(s))

\* sub occurs in s at index i
OccursAt(s, i, sub) ==
    i + Len(sub) <= Len(s) /\ SubSeq(s, i + 1, i + Len(sub)) = sub

\* strings.Index, strings.LastIndex
Index(s, sub) ==
    LET at == {i \in 0..Len(s) : OccursAt(s, i, sub)}
    IN IF at = {} THEN -1 ELSE CHOOSE i \in at : \A k \in at : i <= k

\* variant: the first occurrence instead of the last
LastIndexFirst(s, sub) == Index(s, sub)
LastIndex(s, sub) ==
    LET at == {i \in 0..Len(s) : OccursAt(s, i, sub)}
    IN IF at = {} THEN -1 ELSE CHOOSE i \in at : \A k \in at : i >= k

Max2(a, b) == IF a >= b THEN a ELSE b
Min2(a, b) == IF a <= b THEN a ELSE b

\* the case folding of strings.EqualFold on the letters of the model
Lower(c) ==
    CASE c = "F" -> "f" [] c = "T" -> "t" [] c = "P" -> "p" [] c = "H" -> "h"
      [] c = "S" -> "s" [] c = "I" -> "i" [] c = "O" -> "o" [] OTHER -> c

EqualFold(s, t) ==
    Len(s) = Len(t) /\ \A i \in 1..Len(s) : Lower(s[i]) = Lower(t[i])

\* variant: the prefix test of strings.HasPrefix, which tells the cases apart
HasPrefix(s, prefix) ==
    Len(s) >= Len(prefix) /\ Slice(s, 0, Len(prefix)) = prefix
HasFoldPrefix(s, prefix) ==
    Len(s) >= Len(prefix) /\ EqualFold(Slice(s, 0, Len(prefix)), prefix)

sFtp == <<"f", "t", "p", ":", "/", "/">>
sSftp == <<"s", "f", "t", "p", ":", "/", "/">>
sHttp == <<"h", "t", "t", "p", ":", "/", "/">>
sHttps == <<"h", "t", "t", "p", "s", ":", "/", "/">>
sScheme == <<":", "/", "/">>
sSlash == <<"/">>
sIso == <<".", "i", "s", "o">>
sISO == <<".", "I", "S", "O">>
sIsoSlash == <<".", "i", "s", "o", "/">>
sISOSlash == <<".", "I", "S", "O", "/">>

IsTypeIso(fpath) ==
    IF Len(fpath) < 4 THEN FALSE
    ELSE LET ext == From(fpath, Len(fpath) - 4) IN ext = sIso \/ ext = sISO

\* filepath.VolumeName: a drive letter and a colon on Windows, nothing on
\* the other systems
VolumeName(path, win) ==
    IF win /\ Len(path) >= 2 /\ path[2] = ":" /\ path[1] \in {"c", "d"}
    THEN Slice(path, 0, 2) ELSE <<>>

\* variant: the slash after the address stays at the head of the path
SplitUrlKeepSlash(urlpath, win) ==
    LET i == Index(urlpath, sScheme)
        j == Index(From(urlpath, i + 3), sSlash)
    IN IF i # -1 /\ j # -1
       THEN [addr |-> Slice(urlpath, 0, i + 3 + j),
             fpath |-> From(urlpath, i + 3 + j), is |-> TRUE]
       ELSE [addr |-> urlpath, fpath |-> <<>>, is |-> i # -1]

SplitUrl(urlpath, win) ==
    LET i == Index(urlpath, sScheme)
        j == Index(From(urlpath, i + 3), sSlash)
        vol == VolumeName(urlpath, win)
    IN IF i # -1
       THEN IF j # -1
            THEN [addr |-> Slice(urlpath, 0, i + 3 + j),
                  fpath |-> From(urlpath, i + 3 + j + 1), is |-> TRUE]
            ELSE [addr |-> urlpath, fpath |-> <<>>, is |-> TRUE]
       ELSE IF Len(vol) > 0
            THEN IF Len(urlpath) > Len(vol) + 1
                 THEN [addr |-> vol, fpath |-> From(urlpath, Len(vol) + 1), is |-> FALSE]
                 ELSE [addr |-> vol, fpath |-> <<>>, is |-> FALSE]
            ELSE [addr |-> <<>>, fpath |-> urlpath, is |-> FALSE]

\* the answers of FindDavRoot for an address that answers WebDAV requests
\* at its root and for one that answers them nowhere
DavRoot == <<"/">>
DavAnswers == {NoRoot, [root |-> DavRoot, ok |-> TRUE]}

\* s[a:] of Go, which panics when a is beyond the end of s
InRange(s, a) == a <= Len(s)

\* the loop of MakeJoint over the boundaries of fpath from jpos on and the
\* IsoJoint for the ISO suffix after it; keys: the image paths of the
\* IsoJoints made so far, each on top of the joint made before it; n: the
\* Make calls so far; failAt: the Make call that fails (0: none).  The loop
\* does not end if it is in the same place after more rounds than fpath has
\* places.
RECURSIVE MakeIsos(_, _, _, _, _, _)
MakeIsos(fpath, jpos, keys, n, failAt, rounds) ==
    LET p1 == Index(From(fpath, jpos), sIsoSlash)
        p2 == Index(From(fpath, jpos), sISOSlash)
        p == IF p1 = -1 THEN p2 ELSE IF p2 = -1 THEN p1 ELSE Min2(p1, p2)
    IN IF p1 = p2
       THEN IF IsTypeIso(From(fpath, jpos))
            THEN IF failAt = n + 1
                 THEN [err |-> ErrOther, keys |-> keys, loop |-> FALSE]
                 ELSE [err |-> ErrNil, keys |-> Append(keys, From(fpath, jpos)),
                       loop |-> FALSE]
            ELSE [err |-> ErrNil, keys |-> keys, loop |-> FALSE]
       ELSE IF failAt = n + 1
            THEN [err |-> ErrOther, keys |-> keys, loop |-> FALSE]
            ELSE IF rounds > Len(fpath)
                 THEN [err |-> ErrNil, keys |-> keys, loop |-> TRUE]
                 ELSE MakeIsos(fpath, p + 5, Append(keys, Slice(fpath, 0, p + 4)),
                               n + 1, failAt, rounds + 1)

\* MakeJoint: the outermost joint and its address, then the IsoJoints
MakeJoint(fullpath, win, dav, failAt) ==
    LET u == SplitUrl(fullpath, win)
        remote == \/ HasFoldPrefix(fullpath, sFtp)
                  \/ HasFoldPrefix(fullpath, sSftp)
                  \/ HasFoldPrefix(fullpath, sHttp)
                  \/ HasFoldPrefix(fullpath, sHttps)
        k == IF HasFoldPrefix(fullpath, sFtp) THEN "ftp"
             ELSE IF HasFoldPrefix(fullpath, sSftp) THEN "sftp"
             ELSE IF HasFoldPrefix(fullpath, sHttp) \/ HasFoldPrefix(fullpath, sHttps)
                  THEN IF dav.ok THEN "dav" ELSE "none"
             ELSE IF ~u.is THEN "sys" ELSE "none"
        addr == IF k = "dav" THEN u.addr \o dav.root ELSE u.addr
        fpath == IF k = "dav" THEN From(u.fpath, Len(dav.root) - 1) ELSE u.fpath
        r == MakeIsos(fpath, 0, <<>>, IF remote THEN 1 ELSE 0, failAt, 0)
    IN IF k = "none"
       THEN [NoOut EXCEPT !.err = ErrNotExist]
       ELSE IF k = "dav" /\ ~InRange(u.fpath, Len(dav.root) - 1)
       THEN [NoOut EXCEPT !.err = ErrPanic]
       ELSE IF remote /\ failAt = 1
            THEN [NoOut EXCEPT !.err = ErrOther, !.kind = k, !.key = addr]
            ELSE [NoOut EXCEPT !.err = r.err, !.kind = k, !.key = addr,
                               !.fpath = fpath, !.keys = r.keys, !.loop = r.loop]

SplitKey(fullpath, win, dav) ==
    LET p == Max2(LastIndex(fullpath, sIsoSlash), LastIndex(fullpath, sISOSlash))
        u == SplitUrl(fullpath, win)
    IN IF IsTypeIso(fullpath)
       THEN [NoOut EXCEPT !.key = fullpath, !.is = TRUE]
       ELSE IF p # -1
            THEN [NoOut EXCEPT !.key = Slice(fullpath, 0, p + 4),
                               !.fpath = From(fullpath, p + 5), !.is = TRUE]
            ELSE IF /\ u.is
                    /\ HasFoldPrefix(fullpath, sHttp) \/ HasFoldPrefix(fullpath, sHttps)
                    /\ dav.ok
                 THEN IF ~InRange(u.fpath, Len(dav.root) - 1)
                      THEN [NoOut EXCEPT !.err = ErrPanic]
                      ELSE [NoOut EXCEPT !.key = u.addr \o dav.root,
                                         !.fpath = From(u.fpath, Len(dav.root) - 1),
                                         !.is = TRUE]
                 ELSE [NoOut EXCEPT !.key = u.addr, !.fpath = u.fpath, !.is = u.is]

(***************************************************************************)
(* The paths the functions are called with: a head (nothing, a volume, a   *)
(* URL scheme in either case with a host), up to MaxSegs segments joined   *)
(* by slashes, some of them names of ISO images, and a slash at the end or *)
(* none; or a head alone.                                                  *)
(***************************************************************************)
Heads ==
    {<<>>,
     <<"c", ":", "/">>,
     <<"f", "t", "p", ":", "/", "/", "h", "/">>,
     <<"F", "T", "P", ":", "/", "/", "h", "/">>,
     <<"s", "f", "t", "p", ":", "/", "/", "h">>,
     <<"S", "f", "t", "p", ":", "/", "/", "h", "/">>,
     <<"h", "t", "t", "p", ":", "/", "/", "h", "/">>,
     <<"H", "t", "t", "p", "s", ":", "/", "/", "h", "/">>,
     <<"s", "m", "b", ":", "/", "/", "h", "/">>}

Segments == {<<"d">>, <<"a", ".", "i", "s", "o">>, <<"b", ".", "I", "S", "O">>}

RECURSIVE JoinSegs(_)
JoinSegs(segs) ==
    IF segs = <<>> THEN <<>>
    ELSE IF Len(segs) = 1 THEN segs[1]
    ELSE segs[1] \o sSlash \o JoinSegs(Tail(segs))

FullPaths ==
    Heads \cup
    {h \o JoinSegs(segs) \o e :
        h \in Heads,
        segs \in UNION {[1..n -> Segments] : n \in 1..MaxSegs},
        e \in {<<>>, sSlash}}

InitPath ==
    /\ kind \in {"sys"}
    /\ joints = [i \in JointIds |-> NoJoint]
    /\ made = 0
    /\ cache = <<>>
    /\ expire = <<>>
    /\ pending = 0
    /\ hold = [j \in JointIds |-> 0]
    /\ fail = [j \in JointIds |-> 0]
    /\ make = [w \in Waits |-> 0]
    /\ res = ErrNil
    /\ opened = {}
    /\ cleaned = {}
    /\ crashed = FALSE
    /\ PoolInit
    /\ chain = <<>>
    /\ \E fullpath \in FullPaths : call = [NoCall EXCEPT !.path = fullpath]
    /\ davroot = NoRoots
    /\ isocache = NoIsoCache
    /\ track = NoTrack

PathFrame ==
    UNCHANGED <<track, isocache, davroot, chain, poolVars, kind, joints, made, cache, expire, pending,
                hold, fail, make, res, opened, cleaned, crashed>>

CallMakeJoint(win, dav, failAt) ==
    /\ call.op = "none"
    /\ call' = [call EXCEPT !.op = "make", !.win = win, !.dav = dav,
                            !.out = MakeJoint(call.path, win, dav, failAt)]
    /\ PathFrame

CallSplitKey(win, dav) ==
    /\ call.op = "none"
    /\ call' = [call EXCEPT !.op = "split", !.win = win, !.dav = dav,
                            !.out = SplitKey(call.path, win, dav)]
    /\ PathFrame

NextPath ==
    \/ \E win \in BOOLEAN, dav \in DavAnswers, failAt \in 0..(MaxSegs + 1) :
          CallMakeJoint(win, dav, failAt)
    \/ \E win \in BOOLEAN, dav \in DavAnswers : CallSplitKey(win, dav)

SpecPath == InitPath /\ [][NextPath]_vars

(***************************************************************************)
(* JoinPath, called with every pair of strings of up to MaxLen characters  *)
(* out of a letter, the slash and the dot.                                 *)
(***************************************************************************)
sDot == <<".">>

\* variant: the two chunks with a slash between them, whatever their ends
JoinPathPlain(dir, base) ==
    IF dir = <<>> \/ dir = sDot THEN base
    ELSE IF base = <<>> \/ base = sDot THEN dir
    ELSE dir \o sSlash \o base

JoinPath(dir, base) ==
    IF dir = <<>> \/ dir = sDot THEN base
    ELSE IF base = <<>> \/ base = sDot THEN dir
    ELSE IF dir[Len(dir)] = "/"
         THEN IF base[1] = "/" THEN dir \o From(base, 1) ELSE dir \o base
         ELSE IF base[1] = "/" THEN dir \o base
              ELSE dir \o sSlash \o base

Chunks == UNION {[1..n -> {"x", "/", "."}] : n \in 0..MaxLen}

InitJoinPath ==
    /\ kind \in {"sys"}
    /\ joints = [i \in JointIds |-> NoJoint]
    /\ made = 0
    /\ cache = <<>>
    /\ expire = <<>>
    /\ pending = 0
    /\ hold = [j \in JointIds |-> 0]
    /\ fail = [j \in JointIds |-> 0]
    /\ make = [w \in Waits |-> 0]
    /\ res = ErrNil
    /\ opened = {}
    /\ cleaned = {}
    /\ crashed = FALSE
    /\ PoolInit
    /\ chain = <<>>
    /\ call = NoCall
    /\ davroot = NoRoots
    /\ isocache = NoIsoCache
    /\ track = NoTrack

CallJoinPath(dir, base) ==
    /\ call.op = "none"
    /\ call' = [call EXCEPT !.op = "join", !.path = dir, !.base = base,
                            !.out.fpath = JoinPath(dir, base)]
    /\ PathFrame

NextJoinPath == \E dir \in Chunks, base \in Chunks : CallJoinPath(dir, base)

SpecJoinPath == InitJoinPath /\ [][NextJoinPath]_vars

(***************************************************************************)
(* The fileinfo wrapper around the fs.FileInfo of a back-end.  A file mode *)
(* is the set of its bits: the type bits fs.ModeDir and fs.ModeSymlink and *)
(* two permission bits.  IsDir of the wrapped value is Mode().IsDir(), as  *)
(* fs.FileInfo lays down.                                                  *)
(***************************************************************************)
ModeDir == "d"
ModeSymlink == "L"
ModeType == {ModeDir, ModeSymlink}
Modes == SUBSET {ModeDir, ModeSymlink, "r", "w"}

IsRegular(mode) == mode \cap ModeType = {}
IsDir(mode) == ModeDir \in mode

\* the names of the entries: plain ones and ones with the ISO suffix in
\* several cases of its letters
Names ==
    {<<"d">>, <<"i", "s", "o">>, <<".", "i", "s", "o">>,
     <<"a", ".", "i", "s", "o">>, <<"a", ".", "I", "S", "O">>,
     <<"a", ".", "I", "s", "o">>, <<"a", ".", "i", "S", "O">>,
     <<"a", ".", "i", "s", "o", "x">>}

\* variant: the mode of the wrapped value as it is
InfoModeKeep(fi) == fi.mode
InfoMode(fi) ==
    IF IsRegular(fi.mode) /\ IsTypeIso(fi.name) THEN fi.mode \cup {ModeDir}
    ELSE fi.mode

InfoIsDir(fi) == IsDir(fi.mode) \/ IsTypeIso(fi.name)

InfoIsRealDir(fi) == IsDir(fi.mode)

\* ToFileInfo and the three methods on its result
CallFileInfo(name, mode) ==
    LET fi == [name |-> name, mode |-> mode]
    IN /\ call.op = "none"
       /\ call' = [call EXCEPT !.op = "info", !.path = name, !.mode = mode,
                               !.out.mode = InfoMode(fi),
                               !.out.dir = InfoIsDir(fi),
                               !.out.real = InfoIsRealDir(fi)]
       /\ PathFrame

NextInfo == \E name \in Names, mode \in Modes : CallFileInfo(name, mode)

SpecInfo == InitJoinPath /\ [][NextInfo]_vars

(***************************************************************************)
(* The root of a WebDAV service.  FindDavRoot, which SplitKey and          *)
(* MakeJoint call, is GetDavRoot of dav.go.  A service is up or not, and   *)
(* when it is up it answers "is a directory" for its root path and for     *)
(* every path below it.  The URLs are an address and a path of up to       *)
(* DavDepth segments, with a slash at the end or none.                     *)
(***************************************************************************)
Servers ==
    {NoServer,
     [up |-> TRUE, root |-> <<>>],
     [up |-> TRUE, root |-> <<"/", "w">>],
     [up |-> TRUE, root |-> <<"/", "w", "/", "d">>]}

DavSegs == {<<"w">>, <<"d">>}

DavUrls ==
    {a \o t : a \in Addrs, t \in {<<>>, sSlash}} \cup
    {a \o sSlash \o JoinSegs(segs) \o e :
        a \in Addrs,
        segs \in UNION {[1..n -> DavSegs] : n \in 1..DavDepth},
        e \in {<<>>, sSlash}}

\* client.Stat("") of a client for the address and root: the path is a
\* directory of the service
IsDirAt(srv, root) ==
    LET c == IF root[Len(root)] = "/" THEN Slice(root, 0, Len(root) - 1) ELSE root
    IN /\ srv.up
       /\ HasPrefix(c, srv.root)
       /\ Len(c) = Len(srv.root) \/ c[Len(srv.root) + 1] = "/"

\* the loop of GetDavRoot over fpath from pos on; probes: the roots asked
\* for so far.  The loop does not end if it has gone round more often than
\* fpath has places.
RECURSIVE DavProbe(_, _, _, _, _)
DavProbe(fpath, pos, srv, probes, rounds) ==
    LET i == Index(From(fpath, pos), sSlash)
        root == IF i # -1 THEN Slice(fpath, 0, pos + i + 1) ELSE fpath
    IN IF IsDirAt(srv, root)
       THEN [root |-> root, ok |-> TRUE, probes |-> Append(probes, root),
             loop |-> FALSE]
       ELSE IF i = -1
            THEN [root |-> root, ok |-> FALSE, probes |-> Append(probes, root),
                  loop |-> FALSE]
            ELSE IF rounds > Len(fpath)
                 THEN [root |-> root, ok |-> FALSE, probes |-> probes, loop |-> TRUE]
                 ELSE DavProbe(fpath, i + 1, srv, Append(probes, root), rounds + 1)

\* GetDavRoot with memo the entry of the map for the address
GetDavRoot(memo, srv, fpath) ==
    IF memo # <<>>
    THEN [root |-> memo, ok |-> TRUE, probes |-> <<>>, loop |-> FALSE]
    ELSE DavProbe(sSlash \o fpath, 0, srv, <<>>, 0)

\* the map after a call of GetDavRoot for addr that returned r
Memoized(addr, r) ==
    IF r.ok /\ ~r.loop THEN [davroot EXCEPT ![addr] = r.root] ELSE davroot

DavFrame ==
    UNCHANGED <<track, isocache, chain, poolVars, kind, joints, made, cache, expire, pending,
                hold, fail, make, res, opened, cleaned, crashed>>

CallGetDavRoot(url, srv) ==
    LET u == SplitUrl(url, FALSE)
        r == GetDavRoot(davroot[u.addr], srv, u.fpath)
    IN /\ call' = [NoCall EXCEPT !.op = "root", !.path = url, !.srv = srv,
                                 !.dav = [root |-> r.root, ok |-> r.ok],
                                 !.out.loop = r.loop, !.out.probes = r.probes]
       /\ davroot' = Memoized(u.addr, r)
       /\ DavFrame

\* SplitKey and MakeJoint of a URL of a WebDAV service; a call that does
\* not come back from GetDavRoot has no result
DavSplitKey(url, srv) ==
    LET u == SplitUrl(url, FALSE)
        r == GetDavRoot(davroot[u.addr], srv, u.fpath)
        dav == [root |-> r.root, ok |-> r.ok]
    IN /\ call' = [NoCall EXCEPT
                      !.op = "split", !.path = url, !.dav = dav, !.srv = srv,
                      !.out = IF r.loop THEN [NoOut EXCEPT !.loop = TRUE]
                              ELSE [SplitKey(url, FALSE, dav) EXCEPT
                                       !.probes = r.probes]]
       /\ davroot' = Memoized(u.addr, r)
       /\ DavFrame

DavMakeJoint(url, srv, failAt) ==
    LET u == SplitUrl(url, FALSE)
        r == GetDavRoot(davroot[u.addr], srv, u.fpath)
        dav == [root |-> r.root, ok |-> r.ok]
    IN /\ call' = [NoCall EXCEPT
                      !.op = "make", !.path = url, !.dav = dav, !.srv = srv,
                      !.out = IF r.loop THEN [NoOut EXCEPT !.loop = TRUE]
                              ELSE [MakeJoint(url, FALSE, dav, failAt) EXCEPT
                                       !.probes = r.probes]]
       /\ davroot' = Memoized(u.addr, r)
       /\ DavFrame

NextDav ==
    \/ \E url \in DavUrls, srv \in Servers : CallGetDavRoot(url, srv)
    \/ \E url \in DavUrls, srv \in Servers : DavSplitKey(url, srv)
    \/ \E url \in DavUrls, srv \in Servers, failAt \in 0..1 :
          DavMakeJoint(url, srv, failAt)

SpecDav == InitJoinPath /\ [][NextDav]_vars

(***************************************************************************)
(* SpecIso: the lookups of an IsoJoint in its image.  The image is a small *)
(* tree: the root holds the directory d, the file f and the directory u,   *)
(* in this order; d holds the file g; the extent of u cannot be read.  A   *)
(* record is written as the place where it lies in the image, so that a    *)
(* map entry can be compared with the image.  What the library reads from  *)
(* the image does not change between calls.                                *)
(***************************************************************************)
IsoRoot == <<>>
IsoDirs == {IsoRoot, <<"d">>, <<"u">>}
IsoUnread == {<<"u">>}

\* the names a directory record lists, in the order of the image
IsoList(rec) ==
    IF rec = IsoRoot THEN << <<"d">>, <<"f">>, <<"u">> >>
    ELSE IF rec = <<"d">> THEN << <<"g">> >>
    ELSE <<>>

\* the record that the directory rec lists under name
Child(rec, name) == IF rec = IsoRoot THEN name ELSE rec \o sSlash \o name

\* File.IsDir; the variant takes every record for a directory
FileIsDirAlways(rec) == TRUE

FileIsDir(rec) == rec \in IsoDirs

\* strings.Split(s, "/")
RECURSIVE Split(_)
Split(s) ==
    LET i == Index(s, sSlash)
    IN IF i < 0 THEN <<s>> ELSE <<Slice(s, 0, i)>> \o Split(From(s, i + 1))

\* fs.ValidPath
ValidPath(name) ==
    \/ name = sDot
    \/ \A k \in 1..Len(Split(name)) :
          Split(name)[k] \notin {<<>>, sDot, <<".", ".">>}

\* JoinFast; the variant drops the directory
JoinFastBase(dir, base) == base

JoinFast(dir, base) == JoinPath(dir, base)

\* the map after Make: the root directory under the empty path
MadeCache == (<<>> :> IsoRoot)

\* the entries the scan of a list for chunk stores: every name up to the
\* one that is found, or all of them
Scanned(list, chunk) ==
    LET hit == {k \in 1..Len(list) : list[k] = chunk}
    IN IF hit = {} THEN Len(list) ELSE CHOOSE k \in hit : \A h \in hit : k <= h

Stored(c, curdir, file, n) ==
    LET list == IsoList(file)
        new == {JoinFast(curdir, list[k]) : k \in 1..n}
    IN [p \in DOMAIN c \cup new |->
           IF p \in new
           THEN Child(file, list[CHOOSE k \in 1..n :
                                    /\ JoinFast(curdir, list[k]) = p
                                    /\ \A h \in (k + 1)..n :
                                          JoinFast(curdir, list[h]) # p])
           ELSE c[p]]

IsoRes(file, err, c, reads) ==
    [file |-> file, err |-> err, cache |-> c, reads |-> reads]

\* the loop of OpenFile over the chunks of the path
RECURSIVE IsoWalk(_, _, _, _, _, _)
IsoWalk(chunks, i, curdir, file, c, reads) ==
    IF i > Len(chunks) THEN IsoRes(file, ErrNil, c, reads)
    ELSE IF ~FileIsDir(file) THEN IsoRes(NoRec, ErrNotExist, c, reads)
    ELSE LET chunk == chunks[i]
             curpath == JoinFast(curdir, chunk)
         IN IF curpath \in DOMAIN c
            THEN IsoWalk(chunks, i + 1, curpath, c[curpath], c, reads)
            ELSE IF file \in IsoUnread
            THEN IsoRes(NoRec, ErrOther, c, Append(reads, file))
            ELSE LET list == IsoList(file)
                     n == Scanned(list, chunk)
                     c2 == Stored(c, curdir, file, n)
                     found == n > 0 /\ list[n] = chunk
                 IN IF ~found
                    THEN IsoRes(NoRec, ErrNotExist, c2, Append(reads, file))
                    ELSE IsoWalk(chunks, i + 1, curpath, Child(file, list[n]),
                                 c2, Append(reads, file))

OpenFile(c, fpath) ==
    IF fpath \in DOMAIN c THEN IsoRes(c[fpath], ErrNil, c, <<>>)
    ELSE IF ~ValidPath(fpath) THEN IsoRes(NoRec, ErrInvalid, c, <<>>)
    ELSE IsoWalk(Split(fpath), 1, <<>>, c[<<>>], c, <<>>)

\* the paths a caller asks for: up to IsoDepth chunks with a slash between
IsoChunks == {<<>>, <<"d">>, <<"f">>, <<"g">>, <<"u">>, sDot}

IsoPaths == {JoinSegs(segs) : segs \in UNION {[1..n -> IsoChunks] : n \in 1..IsoDepth}}

InitIso ==
    /\ kind \in {"iso"}
    /\ joints = [i \in JointIds |-> NoJoint]
    /\ made = 0
    /\ cache = <<>>
    /\ expire = <<>>
    /\ pending = 0
    /\ hold = [j \in JointIds |-> 0]
    /\ fail = [j \in JointIds |-> 0]
    /\ make = [w \in Waits |-> 0]
    /\ res = ErrNil
    /\ opened = {}
    /\ cleaned = {}
    /\ crashed = FALSE
    /\ PoolInit
    /\ chain = <<>>
    /\ call = NoCall
    /\ davroot = NoRoots
    /\ isocache = MadeCache
    /\ track = NoTrack

IsoFrame ==
    UNCHANGED <<track, davroot, chain, poolVars, kind, joints, made, cache, expire, pending,
                hold, fail, make, res, opened, cleaned, crashed>>

\* Info of the joint: OpenFile and the wrapping of its record
IsoInfo(fpath) ==
    LET r == OpenFile(isocache, fpath)
    IN /\ call' = [NoCall EXCEPT !.op = "info", !.path = fpath,
                                 !.out.err = r.err, !.out.file = r.file,
                                 !.out.reads = r.reads,
                                 !.out.dir = r.err = ErrNil /\ FileIsDir(r.file)]
       /\ isocache' = r.cache
       /\ IsoFrame

NextIso == \E fpath \in IsoPaths : IsoInfo(fpath)

SpecIso == InitIso /\ [][NextIso]_vars

(***************************************************************************)
(* SpecIdle: the cache operations with the scheduling of the timers: the   *)
(* runtime fires every armed timer after its duration and runs every       *)
(* callback it has started.  The timers of one cache fire in any order:    *)
(* the duration is read from Cfg at every Put, and the runtime orders      *)
(* neither the timers of different processors nor their callbacks.         *)
(***************************************************************************)
TimerStep == \E i \in 1..Len(expire) : TimerFire(i)

CallbackStep == (\E i \in 1..Len(expire) : CallbackIn(i)) \/ CallbackOut

NextIdle ==
    \/ GetPop(NoPath, ErrNil)
    \/ \E ok \in BOOLEAN : GetMake(ok, NoPath, ErrNil)
    \/ \E j \in JointIds : WrapClose(j)
    \/ \E j \in JointIds : PutHeld(j)
    \/ \E j \in JointIds : Eject(j)
    \/ TimerStep
    \/ CallbackStep
    \/ CacheClose

SpecIdle ==
    /\ Init
    /\ [][NextIdle]_vars
    /\ WF_vars(TimerStep)
    /\ WF_vars(CallbackStep)

\* the cache operations of callers that release each handle once, with the
\* record of the cache kept
SpecBorrow == InitTrack /\ [][NextIdle]_vars

(***************************************************************************)
(* SpecTwice: callers of one JointCache that get a joint, open and close a *)
(* file through the wrapper and close the wrapper, and that may close a    *)
(* wrapper again after they have closed it.                                *)
(***************************************************************************)
NextTwice ==
    \/ GetPop(NoPath, ErrNil)
    \/ \E ok \in BOOLEAN : GetMake(ok, NoPath, ErrNil)
    \/ \E j \in JointIds, p \in Paths, o \in Errs : WrapOpen(j, p, o)
    \/ \E j \in JointIds : FileClose(j)
    \/ \E j \in JointIds : WrapClose(j)
    \/ \E j \in JointIds : StaleClose(j)

SpecTwice == InitTrack /\ [][NextTwice]_vars

(***************************************************************************)
(* SpecFixed: the cache operations with one value of Cfg.DiskCacheExpire   *)
(* for every Put.  The timers then expire in the order they were created,  *)
(* which is their order in the timer sequence; when the callback of an     *)
(* expired timer takes the mutex is not ordered.                           *)
(***************************************************************************)
TimerInOrder ==
    \E i \in 1..Len(expire) :
        /\ \A k \in 1..(i - 1) : expire[k].st # "armed"
        /\ TimerFire(i)

NextFixed ==
    \/ GetPop(NoPath, ErrNil)
    \/ \E ok \in BOOLEAN : GetMake(ok, NoPath, ErrNil)
    \/ \E j \in JointIds : WrapClose(j)
    \/ \E j \in JointIds : PutHeld(j)
    \/ \E j \in JointIds : Eject(j)
    \/ TimerInOrder
    \/ CallbackStep

SpecFixed == Init /\ [][NextFixed]_vars

(***************************************************************************)
(* Properties.                                                             *)
(***************************************************************************)
\* the callers joint j is handed out to: they got it from Get, Eject or
\* inside JointCache.Open and have not released it
Holders(j) == hold[j] + fail[j]

\* C1: when every caller closes each handle once and does not use it after
\* the close, a joint is handed out to at most one caller at a time, and a
\* joint that is handed out is not in the idle sequence.
ExclusiveHold ==
    \A j \in JointIds :
        /\ Holders(j) <= 1
        /\ Holders(j) > 0 => ~Has(j)

\* two callers have a joint each at the same time, after a timer fired too
\* late to evict
ExclusiveHoldWitness ==
    /\ hold[1] = 1
    /\ Holders(2) = 1
    /\ pending > 0

\* C2: under every interleaving of the cache operations and the timer
\* callbacks the idle sequence and the timer sequence have the same length,
\* and Count returns that length.
SameLength == Len(cache) = Len(expire) /\ Count = Len(expire)

\* a timer fired while it was being stopped and removed; a joint was evicted;
\* the cache has an idle joint again
SameLengthWitness ==
    /\ Len(cache) >= 1
    /\ cleaned # {}
    /\ pending > 0

NoDup == \A i \in 1..Len(cache), k \in 1..Len(cache) : cache[i] = cache[k] => i = k

\* what a Put of joint j has to do
PutEffect(j) ==
    IF Has(j)
    THEN UNCHANGED cacheVars
    ELSE /\ cache' = Append(cache, j)
         /\ Len(expire') = Len(expire) + 1
         /\ SubSeq(expire', 1, Len(expire)) = expire
         /\ expire'[Len(expire')].st = "armed"
         /\ pending' = pending

\* C3: no joint is twice in the idle sequence; Put of a joint that is in the
\* sequence changes nothing, Put of any other joint appends it at the tail
\* and arms exactly one new timer.
PutOnce ==
    /\ []NoDup
    /\ [][\A j \in JointIds :
             (PutHeld(j) \/ StalePut(j) \/ WrapClose(j) \/ StaleClose(j))
                 => PutEffect(j)]_vars

\* two joints are idle and a caller is free to put or close one of them
\* again through a handle released earlier
PutOnceWitness ==
    /\ Len(cache) = 2
    /\ Stale(cache[1])
    /\ Stale(cache[2])

\* C4: for every sequence of public operations every joint of the idle
\* sequence is not Busy.
IdleNotBusy == \A i \in 1..Len(cache) : ~Busy(joints[cache[i]])

\* C5: for every joint type and every path, the empty path too, Busy is true
\* exactly when an Open succeeded and no Close followed.
BusyIffOpened == \A j \in 1..made : Busy(joints[j]) <=> j \in opened

\* C6: Open on a Busy joint fails with ErrExist and leaves the joint (path,
\* cursor, size, listing) as it was.
OpenBusyFails ==
    [][\A j \in JointIds, p \in Paths, o \in Errs :
          (WrapOpen(j, p, o) /\ Busy(joints[j]))
              => (res' = ErrExist /\ joints' = joints /\ opened' = opened)]_vars

\* an Open was refused on a joint with an open file, a moved cursor or a
\* listing read in part
OpenBusyFailsWitness ==
    /\ res = ErrExist
    /\ Busy(joints[1])
    /\ joints[1].pos > 0 \/ joints[1].rdn > 0

\* C7: Get with a non-empty idle sequence returns the head joint and stops
\* the timer created for that joint; a joint is constructed only by a Get
\* that found the idle sequence empty when it tried to pop.
GetHead ==
    [][/\ GetPop(NoPath, ErrNil) =>
             IF Len(cache) > 0
             THEN /\ hold' = [hold EXCEPT ![Head(cache)] = @ + 1]
                  /\ Head(expire).of = Head(cache)
                  /\ Head(expire).st = "armed" => pending' = pending
                  /\ cache' = Tail(cache)
                  /\ expire' = Tail(expire)
                  /\ made' = made
                  /\ joints' = joints
                  /\ make' = make
             ELSE /\ make' = [make EXCEPT ![NoPath] = @ + 1]
                  /\ made' = made
                  /\ hold' = hold
                  /\ UNCHANGED cacheVars
       /\ make'[NoPath] > make[NoPath] => Len(cache) = 0
       /\ made' # made => make'[NoPath] < make[NoPath]]_vars

\* a caller holds the joint that was made second while the first one is
\* idle with its timer armed
GetHeadWitness ==
    /\ hold[2] = 1
    /\ cache = <<1>>
    /\ expire = <<NewTimer(1)>>

\* C8: the Close of a handle received from JointCache.Open or Get raises
\* Count by exactly one: the joint is appended to the idle sequence.
CloseAddsOne ==
    [][\A j \in JointIds :
          WrapClose(j) => (Len(cache') = Len(cache) + 1
                           /\ cache'[Len(cache')] = j
                           /\ ~Busy(joints'[j]))]_vars

\* after a Close two joints are idle and no caller is in a call
CloseAddsOneWitness ==
    /\ Len(cache) = 2
    /\ cache[2] \notin cleaned
    /\ Active = 0
    /\ res = ErrNil

\* C9: Cleanup of a handle in place of Close leaves Count as it is: the
\* joint is not added to the idle sequence and is not Busy afterwards.
CleanupKeepsCount ==
    [][\A j \in JointIds :
          WrapCleanup(j) => (/\ ~crashed'
                             /\ cache' = cache
                             /\ j \notin Range(cache')
                             /\ ~Busy(joints'[j])
                             /\ j \in cleaned')]_vars

\* a joint was cleaned up and is not idle while the other joint is idle
CleanupKeepsCountWitness ==
    \E j \in 1..made :
        /\ j \in cleaned
        /\ ~Has(j)
        /\ ~Busy(joints[j])
        /\ Len(cache) = 1
        /\ Active = 0

\* JointCache.Open got joint j and its inner Open failed: what holds after
\* the step
OpenFailed(j) ==
    /\ res' = ErrNotExist =>
          /\ fail' = [fail EXCEPT ![j] = @ + 1]
          /\ hold' = hold
          /\ ~Busy(joints'[j])
          /\ cleaned' = cleaned
    /\ res' = ErrExist =>
          /\ hold' = hold
          /\ fail' = fail
          /\ joints'[j] = joints[j]
          /\ cleaned' = cleaned
          /\ j \notin Range(cache')
    /\ res' = ErrOther =>
          /\ hold' = hold
          /\ fail' = fail
          /\ j \in cleaned'
          /\ ~Busy(joints'[j])
          /\ j \notin Range(cache')

\* C10: when the inner Open of JointCache.Open fails, a NotExist error puts
\* the joint back into the idle sequence, an ErrExist error leaves the joint
\* neither cleaned up nor put back, every other error cleans the joint up
\* and keeps it out of the idle sequence; the caller gets the error and no
\* handle.
OpenFailure ==
    [][/\ \A w \in Paths, o \in Errs :
             (res' # ErrNil /\ Len(cache) > 0 /\ ~crashed' /\ GetPop(w, o))
                 => OpenFailed(Head(cache))
       /\ \A w \in Paths, o \in Errs :
             (res' # ErrNil /\ made' # made /\ ~crashed' /\ GetMake(TRUE, w, o))
                 => OpenFailed(made')
       /\ \A j \in JointIds :
             CacheOpenPut(j) =>
                 /\ res' = ErrNotExist
                 /\ hold' = hold
                 /\ joints' = joints
                 /\ \E i \in 1..Len(cache') :
                       cache'[i] = j /\ expire'[i] = NewTimer(j)]_vars

\* JointCache.Open returned NotExist and its joint is idle again
OpenFailureWitness ==
    /\ res = ErrNotExist
    /\ Active = 0
    /\ Len(cache) >= 1

\* C11: when armed timers fire and started callbacks run, and from some
\* point on no caller takes a step (no Get, Put, Eject, Close), the idle
\* sequence is eventually empty and stays empty.
IdleEvicted ==
    <>[][TimerStep \/ CallbackStep]_vars => <>[](Len(cache) = 0)

\* joint j is left alone by a step of the cache
Untouched(j) == joints'[j] = joints[j] /\ (j \in cleaned' => j \in cleaned)

InPoolClose(t) ==
    pc[t] \in {"poolloop", "closeloop"} /\ loc[t].op \in {"pclose", "clear"}

\* the steps of JointCache.Close by goroutine t: under the mutex it drops the
\* timer sequence with every timer stopped and takes the whole idle
\* sequence; it cleans up the next idle joint whatever the earlier Cleanups
\* returned and joins the error; it returns when no joint is left, with both
\* sequences empty
CacheCloseStep(t) ==
    /\ (JcCloseLock(t) \/ \E k \in Keys : JpCloseNext(t, k)) =>
          LET k == loc'[t].k
          IN /\ jc'[k].expire = <<>>
             /\ jc'[k].pending = jc[k].pending
             /\ loc'[t].rest = jc[k].cache
             /\ loc'[t].err = ErrNil
    /\ \A o \in Answers : (JcCloseCleanup(t, o) /\ ~crashed') =>
          LET j == Head(loc[t].rest)
          IN /\ j \in cleaned'
             /\ ~Busy(joints'[j])
             /\ loc'[t].rest = Tail(loc[t].rest)
             /\ loc'[t].err = Join(loc[t].err, TearDown(joints[j], o).err)
    /\ JcCloseUnlock(t) =>
          LET k == loc[t].k
          IN /\ loc[t].rest = <<>>
             /\ Range(jc[k].cache) \subseteq cleaned
             /\ jc'[k].cache = <<>>
             /\ jc'[k].expire = <<>>

\* the steps of JointPool.Close by goroutine t: it starts with every cache
\* of the map to close, a cache leaves that set only when its Close has
\* returned, whose error is joined, and Close returns when the set is empty
PoolCloseStep(t) ==
    /\ \A op \in {"pclose", "clear"} : JpCloseLock(t, op) =>
          loc'[t].todo = jpmap /\ loc'[t].perr = ErrNil
    /\ (InPoolClose(t) /\ ~crashed') =>
          \/ JpCloseUnlock(t) /\ loc[t].todo = {}
          \/ /\ JcCloseUnlock(t)
             /\ loc'[t].todo = loc[t].todo \ {loc[t].k}
             /\ loc'[t].perr = Join(loc[t].perr, loc[t].err)
          \/ /\ loc'[t].todo = loc[t].todo
             /\ loc'[t].perr = loc[t].perr

\* JointCache.Close alone does what it is said to do
CacheClosesAll == [][\A t \in Threads : CacheCloseStep(t)]_vars

\* C13: JointCache.Close stops every timer, cleans up every idle joint even
\* after a Cleanup that failed, returns the join of the errors and leaves
\* both sequences empty; JointPool.Close does so for every cache of the pool
\* even after a Close that failed.
ClosesAll == [][\A t \in Threads : CacheCloseStep(t) /\ PoolCloseStep(t)]_vars

\* C16: Close on a joint of any type leaves the read cursor at 0, the
\* cached end at 0, no data stream, no buffered listing and the read index
\* of the listing at 0, and leaves the connection as it was.
CloseResets ==
    [][\A j \in JointIds :
          FileClose(j) =>
              /\ joints'[j].pos = 0
              /\ joints'[j].end = 0
              /\ ~joints'[j].rd
              /\ ~joints'[j].listed
              /\ joints'[j].rdn = 0
              /\ joints'[j].live = joints[j].live]_vars

\* C14: a Cleanup of a joint whose latest Cleanup returned no error (called
\* on the joint or reached through the IsoJoint above it) returns no error,
\* does not panic and changes nothing.
CleanupIdempotent ==
    [][\A i \in 1..MaxDepth, oc \in Answers, od \in Answers :
          (ChainCleanup(i, oc, od) /\ chain[i].done = "ok")
              => (~crashed' /\ res' = ErrNil /\ chain' = chain)]_vars

\* the steps of a Cleanup of the chain that failed: the Close of the open
\* handle of the back-end joint, the teardown of its connection
StepFailed(oc, od) ==
    LET b == chain[1].j
    IN \/ Busy(b) /\ HasHandle(b) /\ oc # ErrNil
       \/ Quits(b) /\ od # ErrNil

\* what a Cleanup of the top joint that returns leaves behind
CleanedUp(oc, od) ==
    /\ \A i \in 1..Len(chain) : ~Busy(chain'[i].j) /\ chain'[i].torn = 1
    /\ res' = ErrNil <=> ~StepFailed(oc, od)

\* the first Cleanup of a chain does what it is said to do
FirstCleanupAll ==
    [][\A oc \in Answers, od \in Answers :
          (/\ ChainCleanup(Len(chain), oc, od)
           /\ \A i \in 1..Len(chain) : chain[i].torn = 0)
              => (~crashed' /\ CleanedUp(oc, od))]_vars

\* C15: when a Cleanup of the top joint of a chain returns, no joint of the
\* chain is Busy, every joint has been torn down exactly once, and the error
\* is nil exactly if no step failed.
ChainCleanupAll ==
    [][\A oc \in Answers, od \in Answers :
          (ChainCleanup(Len(chain), oc, od) /\ ~crashed')
              => CleanedUp(oc, od)]_vars

Held(t) == {k \in Keys : mux[k] = t}

\* C17: no goroutine holds the mutex of a JointCache while it runs a Joint
\* method (MakeJoint, Open, Close, Cleanup), and a goroutine that holds both
\* the lock of the pool and the mutex of a cache took the lock of the pool
\* first.
NoJointCallUnderLock ==
    [][\A t \in Threads :
          /\ (\/ \E ok \in BOOLEAN : JcMake(t, ok)
              \/ \E p \in Paths, o \in Errs : JcOpenInner(t, p, o)
              \/ JwClose(t)
              \/ \E o \in Answers : JcDrop(t, o)
              \/ \E o \in Answers : JcCloseCleanup(t, o)) => Held(t) = {}
          /\ (jpmux' = t /\ jpmux # t) => Held(t) = {}]_vars

\* an ISO boundary in s, the number of ISO boundaries of s with the ISO
\* suffix at its end
HasBoundary(s) ==
    \E i \in 0..Len(s) : OccursAt(s, i, sIsoSlash) \/ OccursAt(s, i, sISOSlash)

Boundaries(s) ==
    Cardinality({i \in 0..Len(s) :
                    OccursAt(s, i, sIsoSlash) \/ OccursAt(s, i, sISOSlash)})
        + (IF IsTypeIso(s) THEN 1 ELSE 0)

\* C18: when every Make succeeds, MakeJoint returns with one IsoJoint for
\* every ISO boundary of the path and one for an ISO suffix at its end, each
\* made on the joint made before it, above the outermost joint.
MakesChain ==
    [][\A win \in BOOLEAN, dav \in DavAnswers :
          (CallMakeJoint(win, dav, 0) /\ call'.out.kind # "none")
              => /\ ~call'.out.loop
                 /\ Len(call'.out.keys) = Boundaries(call'.out.fpath)]_vars

\* s begins with prefix, the case of the letters aside
FoldPrefixed(s, prefix) ==
    /\ Len(s) >= Len(prefix)
    /\ \A i \in 1..Len(prefix) : Lower(s[i]) = Lower(prefix[i])

\* the path begins with none of the four prefixes
NoneMatch(s) ==
    /\ ~FoldPrefixed(s, sFtp)
    /\ ~FoldPrefixed(s, sSftp)
    /\ ~FoldPrefixed(s, sHttp)
    /\ ~FoldPrefixed(s, sHttps)

\* C19 as it is stated: MakeJoint matches the four prefixes without regard
\* to case, and every path that matches none of them, one with another
\* scheme too, gets a SysJoint as its outermost joint.
ClassifiesElseLocal ==
    call.op = "make" =>
        /\ FoldPrefixed(call.path, sFtp) => call.out.kind = "ftp"
        /\ FoldPrefixed(call.path, sSftp) => call.out.kind = "sftp"
        /\ NoneMatch(call.path) => call.out.kind = "sys"

\* C19: MakeJoint matches the four prefixes without regard to case; a path
\* that matches none of them and has no "://" gets a SysJoint bound to its
\* volume as its outermost joint; a path that matches none of them and has
\* a "://" is refused with ErrNotExist and no joint.
Classifies ==
    call.op = "make" =>
        /\ FoldPrefixed(call.path, sFtp) => call.out.kind = "ftp"
        /\ FoldPrefixed(call.path, sSftp) => call.out.kind = "sftp"
        /\ (FoldPrefixed(call.path, sHttp) \/ FoldPrefixed(call.path, sHttps)) =>
              IF call.dav.ok THEN call.out.kind = "dav"
              ELSE call.out.kind = "none" /\ call.out.err = ErrNotExist
        /\ (NoneMatch(call.path) /\ Index(call.path, sScheme) = -1) =>
              /\ call.out.kind = "sys"
              /\ call.out.key = VolumeName(call.path, call.win)
        /\ (NoneMatch(call.path) /\ Index(call.path, sScheme) # -1) =>
              /\ call.out.kind = "none"
              /\ call.out.err = ErrNotExist

\* MakeJoint made an FtpJoint for a path whose scheme is in capitals
ClassifiesWitness ==
    /\ call.op = "make"
    /\ FoldPrefixed(call.path, sFtp)
    /\ call.path[1] = "F"
    /\ call.out.kind = "ftp"
    /\ Len(call.out.keys) = 2

\* C20: for a path with an ISO boundary that does not end in the ISO suffix
\* SplitKey returns the path up to the ".iso" of the last boundary and what
\* follows the slash of that boundary; for a path that ends in the ISO
\* suffix the whole path and nothing; for a local path with no boundary, no
\* suffix, no scheme and no volume nothing and the path.
SplitsAtLastIso ==
    call.op = "split" =>
        /\ IsTypeIso(call.path) =>
              call.out.key = call.path /\ call.out.fpath = <<>>
        /\ (~IsTypeIso(call.path) /\ HasBoundary(call.path)) =>
              /\ call.path = call.out.key \o sSlash \o call.out.fpath
              /\ IsTypeIso(call.out.key)
              /\ ~HasBoundary(call.out.fpath)
        /\ (/\ ~IsTypeIso(call.path)
            /\ ~HasBoundary(call.path)
            /\ Index(call.path, sScheme) = -1
            /\ VolumeName(call.path, call.win) = <<>>) =>
              call.out.key = <<>> /\ call.out.fpath = call.path

\* SplitKey was given a path with two ISO boundaries and a plain name after
\* them, and returned a key that holds the first boundary
SplitsAtLastIsoWitness ==
    /\ call.op = "split"
    /\ ~IsTypeIso(call.path)
    /\ HasBoundary(call.out.key)
    /\ call.out.fpath = <<"d">>

\* k is an address: one of the four schemes and an authority
IsUrlPrefix(k) ==
    \E pre \in {sFtp, sSftp, sHttp, sHttps} :
        /\ HasFoldPrefix(k, pre)
        /\ Len(k) > Len(pre)
        /\ Index(From(k, Len(pre)), sSlash) = -1

IsDavPrefix(k) ==
    IsUrlPrefix(k) /\ (HasFoldPrefix(k, sHttp) \/ HasFoldPrefix(k, sHttps))

\* the ways to read s as k, a slash and tail: the places of the slash
Cuts(s) == {i \in 1..Len(s) : s[i] = "/"}

Blank(a) == a = <<>> \/ a = sDot

\* C22 as it is stated: for all strings a and b the four ways to write the
\* junction give one result, and joining with the empty string gives the
\* other string.
JoinSameAll ==
    call.op = "join" =>
        LET a == call.path
            b == call.base
        IN /\ call.out.fpath = JoinPath(a \o sSlash, b)
           /\ call.out.fpath = JoinPath(a, sSlash \o b)
           /\ call.out.fpath = JoinPath(a \o sSlash, sSlash \o b)
           /\ JoinPath(a, <<>>) = a
           /\ JoinPath(<<>>, a) = a

\* a without one slash at its end, b without one slash at its head
TrimEnd(a) == IF a # <<>> /\ a[Len(a)] = "/" THEN Slice(a, 0, Len(a) - 1) ELSE a
TrimHead(b) == IF b # <<>> /\ b[1] = "/" THEN From(b, 1) ELSE b

\* C22: JoinPath returns b if a is empty or the dot, else a if b is empty
\* or the dot, else a without one slash at its end, a slash, and b without
\* one slash at its head; so the four ways to write the junction give one
\* result when neither chunk is empty or the dot, a has no slash at its end
\* and b none at its head, and joining a with the empty string on either
\* side gives a, except that JoinPath(".", "") is empty.
JoinsOnce ==
    call.op = "join" =>
        LET a == call.path
            b == call.base
            r == call.out.fpath
        IN /\ Blank(a) => r = b
           /\ (~Blank(a) /\ Blank(b)) => r = a
           /\ (~Blank(a) /\ ~Blank(b)) => r = TrimEnd(a) \o sSlash \o TrimHead(b)
           /\ (~Blank(a) /\ ~Blank(b) /\ TrimEnd(a) = a /\ TrimHead(b) = b) =>
                 /\ r = JoinPath(a \o sSlash, b)
                 /\ r = JoinPath(a, sSlash \o b)
                 /\ r = JoinPath(a \o sSlash, sSlash \o b)
           /\ JoinPath(<<>>, a) = a
           /\ JoinPath(a, <<>>) = (IF a = sDot THEN <<>> ELSE a)

\* JoinPath was given a chunk that ends in a slash and one that begins with
\* a slash, and returned them with one slash between the names
JoinsOnceWitness ==
    /\ call.op = "join"
    /\ call.path = <<"x", "/">>
    /\ call.base = <<"/", "x">>
    /\ call.out.fpath = <<"x", "/", "x">>

\* the name ends in ".iso", in any case of the letters
EndsIso(name) == Len(name) >= 4 /\ From(name, Len(name) - 4) = sIso
EndsIsoFold(name) ==
    Len(name) >= 4 /\ EqualFold(From(name, Len(name) - 4), sIso)

\* C23: through the wrapper a regular file whose name ends in ".iso" is a
\* directory and no real directory, and its mode is the mode of the wrapped
\* value with the directory bit; a directory is a directory and a real
\* directory; a regular file without the ISO suffix is neither, and its
\* mode is the mode of the wrapped value.
IsoIsDir ==
    call.op = "info" =>
        /\ (IsRegular(call.mode) /\ EndsIso(call.path)) =>
              /\ call.out.dir
              /\ ~call.out.real
              /\ call.out.mode = call.mode \cup {ModeDir}
        /\ IsDir(call.mode) => call.out.dir /\ call.out.real
        /\ (IsRegular(call.mode) /\ ~EndsIsoFold(call.path)) =>
              /\ ~call.out.dir
              /\ ~call.out.real
              /\ call.out.mode = call.mode

\* a regular file with permission bits and the name "a.iso" went through
\* the wrapper and came out as a directory that is no real directory
IsoIsDirWitness ==
    /\ call.op = "info"
    /\ call.path = <<"a", ".", "i", "s", "o">>
    /\ call.mode = {"r", "w"}
    /\ call.out.mode = {ModeDir, "r", "w"}
    /\ call.out.dir
    /\ ~call.out.real

\* C24: a regular file whose name ends in ".iso" in any case of its
\* letters is a directory through the wrapper.
IsoAnyCase ==
    call.op = "info" =>
        ((IsRegular(call.mode) /\ EndsIsoFold(call.path)) => call.out.dir)

\* the joint is an FtpJoint or a DavJoint
Remote(j) == joints[j].kind \in {"ftp", "dav"}

\* C25: on an FtpJoint or DavJoint a Read with no data stream open starts a
\* retrieval at the cursor, and a Read with a stream open goes on with that
\* stream; a Seek or ReadAt to another place than the cursor closes the
\* stream, so that the next Read (the one at the end of the ReadAt) starts
\* a retrieval at that place; a Seek or ReadAt to the cursor keeps the
\* stream.  So an open stream always stands at the cursor.
StreamFollowsCursor ==
    [][\A j \in JointIds :
        /\ (\E o \in Answers : Read(j, o) /\ Remote(j) /\ res' \in {ErrNil, ErrEOF}) =>
              /\ joints'[j].rd
              /\ joints'[j].at - (joints'[j].pos - joints[j].pos)
                    = (IF joints[j].rd THEN joints[j].at ELSE joints[j].pos)
        /\ \A offset \in -1..MaxPos, whence \in Whences :
              ((\E o \in Answers : Seek(j, offset, whence, o)) /\ Remote(j)
                  /\ res' = ErrNil) =>
                 IF joints'[j].pos # joints[j].pos
                 THEN ~joints'[j].rd
                 ELSE joints'[j].rd = joints[j].rd /\ joints'[j].at = joints[j].at
        /\ \A off \in 0..MaxPos :
              ((\E o \in Answers : ReadAt(j, off, o)) /\ Remote(j)
                  /\ res' \in {ErrNil, ErrEOF}) =>
                 /\ joints'[j].rd
                 /\ joints'[j].at - (joints'[j].pos - off)
                       = (IF joints[j].rd /\ off = joints[j].pos
                          THEN joints[j].at ELSE off)
        /\ (Remote(j) /\ joints'[j].rd) => joints'[j].at = joints'[j].pos]_vars

\* a remote joint has a data stream open that stands at the cursor at the
\* end of the file, after a Seek that asked for the size of the file
StreamFollowsCursorWitness ==
    \E j \in JointIds :
        /\ Remote(j)
        /\ j \in opened
        /\ joints[j].rd
        /\ joints[j].end = FileSize
        /\ joints[j].at = FileSize
        /\ joints[j].pos = FileSize

\* the path the joint has open
Dir(j) == IF joints[j].kind \in {"ftp", "dav"} THEN joints[j].path ELSE joints[j].file

\* C26: while a joint is open, what its ReadDir calls have returned since
\* the Open is, in order, the first entries of the listing of the path it
\* has open, none twice and none left out, as many as the read index
\* says; the read index is not beyond the end of the listing; a ReadDir
\* with a negative count that succeeds leaves nothing of the listing
\* behind; and a buffered listing is the listing of the open path.
ReadsInOrder ==
    [][\A j \in JointIds :
        /\ j \in opened' =>
              /\ Len(joints'[j].got) = joints'[j].rdn
              /\ joints'[j].rdn <= ListLen
              /\ \A i \in 1..Len(joints'[j].got) :
                    joints'[j].got[i] = <<Dir(j)', i>>
              /\ joints'[j].listed => joints'[j].lof = Dir(j)'
        /\ \A n \in -1..(ListLen + 1) :
              ((\E o \in Answers : ReadDir(j, n, o)) /\ n < 0 /\ res' = ErrNil) =>
                 /\ joints'[j].rdn = ListLen
                 /\ Len(joints'[j].got) - Len(joints[j].got) = ListLen - joints[j].rdn]_vars

\* an FtpJoint that is open on the path of an entry has fetched the
\* listing of that path and has returned the first entry of it
ReadsInOrderWitness ==
    \E j \in JointIds :
        /\ j \in opened
        /\ joints[j].kind = "ftp"
        /\ joints[j].path = "f"
        /\ joints[j].listed
        /\ joints[j].got = <<<<"f", 1>>>>

\* C27: with the listing at hand, a ReadDir for n > 0 entries returns
\* io.EOF if and only if fewer than n entries of the listing remain, and a
\* ReadDir for a negative n returns no error, on every kind of joint.
EofIffShort ==
    [][\A j \in JointIds, n \in -1..(ListLen + 1) :
          ((\E o \in Answers : ReadDir(j, n, o)) /\ res' \in {ErrNil, ErrEOF}) =>
             /\ n > 0 => (res' = ErrEOF <=> ListLen - joints[j].rdn < n)
             /\ n < 0 => res' = ErrNil]_vars

\* the image paths of s, each from the end of the boundary before it up to
\* its ".iso": the path of every image inside the image before it
RECURSIVE RelKeys(_)
RelKeys(s) ==
    LET p1 == Index(s, sIsoSlash)
        p2 == Index(s, sISOSlash)
        p == IF p1 = -1 THEN p2 ELSE IF p2 = -1 THEN p1 ELSE Min2(p1, p2)
    IN IF p1 = p2 THEN (IF IsTypeIso(s) THEN <<s>> ELSE <<>>)
       ELSE <<Slice(s, 0, p + 4)>> \o RelKeys(From(s, p + 5))

\* the number of ISO boundaries of s
BoundaryCount(s) ==
    Cardinality({i \in 0..Len(s) :
                    OccursAt(s, i, sIsoSlash) \/ OccursAt(s, i, sISOSlash)})

\* C28: for a path inside the outermost joint with two or more ISO
\* boundaries MakeJoint comes to an end, and the IsoJoints it has made are
\* made, in order, with the path of each image inside the image before it:
\* all of the images when every Make succeeds, the first of them when one
\* fails.
ScansEachOnce ==
    (/\ call.op = "make"
     /\ call.out.kind # "none"
     /\ BoundaryCount(call.out.fpath) >= 2) =>
        /\ ~call.out.loop
        /\ Len(call.out.keys) <= Len(RelKeys(call.out.fpath))
        /\ call.out.keys = SubSeq(RelKeys(call.out.fpath), 1, Len(call.out.keys))
        /\ call.out.err = ErrNil => call.out.keys = RelKeys(call.out.fpath)

\* the places of the slashes of s, in order
RECURSIVE Ascending(_)
Ascending(S) ==
    IF S = {} THEN <<>>
    ELSE LET m == CHOOSE x \in S : \A y \in S : x <= y
         IN <<m>> \o Ascending(S \ {m})

\* the candidate roots of the path s of a URL (with the slash at its head):
\* for every segment the path up to the slash after it, from the root of
\* the address downward, and the whole path if it has no slash at its end
Candidates(s) ==
    LET at == Ascending({i \in 1..Len(s) : s[i] = "/"})
    IN [k \in 1..Len(at) |-> Slice(s, 0, at[k])]
          \o (IF s[Len(s)] = "/" THEN <<>> ELSE <<s>>)

\* C29: GetDavRoot for an address with no root in the map comes to an end
\* for every URL; it asks for candidate roots in order from the root of
\* the address downward, for each at most once; it returns the first
\* candidate that is a directory and puts it into the map; and it reports
\* that there is none when no candidate is a directory.
ProbesEachOnce ==
    [][LET url == call'.path
           srv == call'.srv
           u == SplitUrl(url, FALSE)
           cands == Candidates(sSlash \o u.fpath)
           probes == call'.out.probes
       IN (CallGetDavRoot(url, srv) /\ davroot[u.addr] = <<>>) =>
             /\ ~call'.out.loop
             /\ Len(probes) <= Len(cands)
             /\ probes = SubSeq(cands, 1, Len(probes))
             /\ call'.dav.ok =>
                   /\ call'.dav.root = probes[Len(probes)]
                   /\ IsDirAt(srv, call'.dav.root)
                   /\ \A k \in 1..(Len(probes) - 1) : ~IsDirAt(srv, probes[k])
                   /\ davroot'[u.addr] = call'.dav.root
             /\ ~call'.dav.ok =>
                   /\ probes = cands
                   /\ \A k \in 1..Len(cands) : ~IsDirAt(srv, cands[k])
                   /\ davroot' = davroot]_vars

\* C30: when the map has a root for the address of a URL, SplitKey and
\* MakeJoint of the URL ask the service for nothing and do not fail;
\* SplitKey returns the address with the root as the key and the rest of
\* the URL as the path, MakeJoint makes the DavJoint for that key.
MemoSplits ==
    [][LET url == call'.path
           srv == call'.srv
           u == SplitUrl(url, FALSE)
           out == call'.out
       IN /\ (DavSplitKey(url, srv) /\ davroot[u.addr] # <<>>) =>
                /\ out.probes = <<>> /\ ~out.loop
                /\ out.err = ErrNil
                /\ out.key = u.addr \o davroot[u.addr]
                /\ out.key \o out.fpath \in {url, url \o sSlash}
          /\ (DavMakeJoint(url, srv, 0) /\ davroot[u.addr] # <<>>) =>
                /\ out.probes = <<>> /\ ~out.loop
                /\ out.err = ErrNil
                /\ out.kind = "dav"
                /\ out.key = u.addr \o davroot[u.addr]
                /\ out.key \o out.fpath \in {url, url \o sSlash}]_vars

\* the segments of a path of an image, the empty path being the root
Segs(fpath) == IF fpath = <<>> THEN <<>> ELSE Split(fpath)

\* the record of the image that lies at the end of the segments, from rec
\* on; NoRec when a segment is absent from its parent or the parent is not
\* a directory
RECURSIVE Place(_, _)
Place(segs, rec) ==
    IF segs = <<>> THEN rec
    ELSE IF ~(rec \in IsoDirs) \/ ~(\E k \in 1..Len(IsoList(rec)) : IsoList(rec)[k] = Head(segs))
    THEN NoRec
    ELSE Place(Tail(segs), Child(rec, Head(segs)))

\* the walk along the segments has to list a directory that cannot be read
Unreadable(segs) ==
    \E n \in 0..(Len(segs) - 1) : Place(SubSeq(segs, 1, n), IsoRoot) \in IsoUnread

\* C31 as stated: a lookup of a path with a segment that is absent from
\* its parent directory, or with a segment before the last that is not a
\* directory, returns NotExist, and no lookup lists the children of a
\* record that is not a directory.
NotExistAll ==
    call.op = "info" =>
        /\ Place(Segs(call.path), IsoRoot) = NoRec => call.out.err = ErrNotExist
        /\ \A k \in 1..Len(call.out.reads) : call.out.reads[k] \in IsoDirs

\* C31: a lookup never lists the children of a record that is not a
\* directory, whether the record came from the map or from a scan.  For a
\* path that fs.ValidPath accepts and whose directories can be read, the
\* lookup returns NotExist when a segment is absent from its parent or a
\* segment before the last is not a directory.  A path that fs.ValidPath
\* refuses, the empty path of the root aside, returns ErrInvalid, and a
\* directory that cannot be read returns the error of the read.
NotExistValid ==
    call.op = "info" =>
        LET segs == Segs(call.path)
            absent == Place(segs, IsoRoot) = NoRec
        IN /\ \A k \in 1..Len(call.out.reads) : call.out.reads[k] \in IsoDirs
           /\ (ValidPath(call.path) /\ absent /\ ~Unreadable(segs))
                 => call.out.err = ErrNotExist
           /\ (ValidPath(call.path) /\ Unreadable(segs))
                 => call.out.err = ErrOther
           /\ (~ValidPath(call.path) /\ call.path # <<>>)
                 => call.out.err = ErrInvalid

\* a lookup that ended with NotExist at a file it took from the map: no
\* directory was listed
NotExistValidWitness ==
    /\ call.op = "info"
    /\ ValidPath(call.path)
    /\ Len(Segs(call.path)) >= 2
    /\ call.out.err = ErrNotExist
    /\ call.out.reads = <<>>

\* C35: every entry of the map of an IsoJoint holds, under a path, the
\* record that lies at this path in the image, and a lookup returns the
\* record and the error that the same lookup returns on the map as Make
\* left it, whatever lookups came before.
WarmAsCold ==
    /\ \A p \in DOMAIN isocache :
          /\ isocache[p] # NoRec
          /\ isocache[p] = Place(Segs(p), IsoRoot)
    /\ call.op = "info" =>
          LET cold == OpenFile(MadeCache, call.path)
          IN /\ call.out.err = cold.err
             /\ call.out.file = cold.file

\* a lookup answered from the map alone, two levels down, after the scans
\* of earlier lookups filled it
WarmAsColdWitness ==
    /\ call.op = "info"
    /\ call.out.err = ErrNil
    /\ call.out.reads = <<>>
    /\ Len(Segs(call.path)) >= 2
    /\ OpenFile(MadeCache, call.path).reads # <<>>

\* C32: Has(j) is true exactly when j is in the idle sequence.  Eject(j)
\* returns true exactly in that case; it then removes j and the timer at
\* the index of j, which it stops (an armed timer never fires, the callback
\* of a fired one still runs), and leaves the other joints and their timers
\* in their order.  Otherwise it returns false and changes nothing.
EjectExact ==
    [][\A j \in JointIds :
          Eject(j) =>
             LET in == j \in Range(cache)
             IN /\ Has(j) <=> in
                /\ res' = ResTrue <=> in
                /\ res' = ResFalse <=> ~in
                /\ in => \E i \in 1..Len(cache) :
                            /\ cache[i] = j
                            /\ cache' = RemoveAt(cache, i)
                            /\ expire' = RemoveAt(expire, i)
                            /\ pending' = pending +
                                  (IF expire[i].st = "fired" THEN 1 ELSE 0)
                /\ ~in => UNCHANGED cacheVars
                /\ joints' = joints]_vars

\* Eject returned true for the second of two idle joints: the first one is
\* still idle with its timer
EjectExactWitness ==
    /\ res = ResTrue
    /\ cache = <<1>>
    /\ Len(expire) = 1
    /\ expire[1].of = 1
    /\ hold[2] = 1

\* C33: with one DiskCacheExpire, the callback of an idle timer evicts only
\* a joint whose own timer, the one created by the Put that made it idle,
\* has expired.
EvictsExpired ==
    [][(CallbackStep /\ Len(cache) > 0) =>
          /\ Head(expire).of = Head(cache)
          /\ Head(expire).st # "armed"]_vars

\* C34: on an FtpJoint or DavJoint an open data stream stands at the
\* cursor, so that the next byte it delivers is the one at file offset pos,
\* after any sequence of Open, Read, ReadAt, Seek, Write, Stat, Size,
\* ReadDir and Close.
StreamAtCursor ==
    \A j \in JointIds :
        (Remote(j) /\ joints[j].rd) => joints[j].at = joints[j].pos

\* the joint has a connection to a server
Connected(j) == j.kind \in {"ftp", "sftp"} /\ j.live

\* C36: when MakeJoint has failed at the Make of a nested image, after it
\* built the joints below, none of these joints is left with a connection
\* or with a file open.
MakeCleansUp ==
    (call.op = "make" /\ call.out.err # ErrNil) =>
        \A i \in 1..Len(chain) :
            /\ ~Busy(chain[i].j)
            /\ ~Connected(chain[i].j)

\* the file a joint has open
ImageOf(j) == IF j.kind \in {"ftp", "dav"} THEN j.path ELSE j.file

\* C40: while an IsoJoint that Make has built is not cleaned up, the joint
\* below it is Busy with the image open; no Open or Close on the top joint
\* changes the file a base has open, and an Open on a base fails with
\* ErrExist and changes nothing.
BaseOwned ==
    [][hold[1] = 1 =>
          /\ \A i \in 2..Len(chain) :
                chain[i].j.live =>
                   /\ Busy(chain[i - 1].j)
                   /\ ImageOf(chain[i - 1].j) = SomeFile
                   /\ chain'[i].j.live =>
                         /\ Busy(chain'[i - 1].j)
                         /\ ImageOf(chain'[i - 1].j) = ImageOf(chain[i - 1].j)
          /\ \A i \in 1..(Len(chain) - 1), p \in Paths, o \in Errs :
                (BaseOpen(i, p, o) /\ chain[i + 1].j.live) =>
                    (res' = ErrExist /\ chain' = chain)]_vars

\* the caller has a file of the innermost image open, the image below is
\* still open on its base, and an Open was refused as already open
BaseOwnedWitness ==
    /\ hold[1] = 1
    /\ Len(chain) >= 2
    /\ chain[Len(chain)].j.live
    /\ Busy(chain[Len(chain)].j)
    /\ chain[Len(chain)].j.file = SomeFile
    /\ ImageOf(chain[1].j) = SomeFile
    /\ res = ErrExist

\* C37: the map of the pool is written only under jp.jpmux: a step that
\* changes the map is a GetCache, which takes the lock and gives it back,
\* or is taken by the goroutine that holds the lock, and the removal of
\* the entries by Clear is taken with the lock held by the goroutine that
\* clears.
MapUnderLock ==
    [][/\ jpmap' # jpmap =>
             \/ \E t \in Threads, k \in Keys, op \in {"open", "close"} : GetCache(t, k, op)
             \/ jpmux # 0 /\ pc'[jpmux] # pc[jpmux]
       /\ \A t \in Threads :
             (\E out \in RaceOutcomes : JpClearMap(t, out)) => jpmux = t]_vars

\* the joints of the key that are alive: idle in the cache or checked out,
\* and not cleaned up
LiveJoints == {j \in 1..made : (Has(j) \/ hold[j] > 0) /\ j \notin cleaned}

SecondCloseHarmless ==
    [][\A j \in JointIds :
          (StaleClose(j) /\ j \in track.shut /\ hold[j] > 0) =>
              /\ Busy(joints[j]) => Busy(joints'[j])
              /\ ~(\E i \in 1..Len(cache') : cache'[i] = j)]_vars
====
